---- MODULE Spec2Model ----
(***************************************************************************)
(* A model of memcached.c: the text protocol commands (get, set, add,     *)
(* replace, incr, decr, delete, flush_all), the store decision, the       *)
(* deferred-delete queue and the time conversion, over an item store with  *)
(* a hash chain, an LRU chain and reference-counted items.                 *)
(*                                                                         *)
(* Bytes are one-character strings; NUL stands for the byte 0.  C integers *)
(* keep their width: a value of n*16 bits is a little-endian sequence of  *)
(* n limbs of 16 bits (rel_time_t, unsigned int, uint32_t: 2 limbs;        *)
(* time_t, long, unsigned long: 4 limbs, two's complement when signed).    *)
(***************************************************************************)
EXTENDS Integers, Sequences, FiniteSets, TLC

VARIABLES
    started,       \* time_t started
    time0,         \* time(0) - started: the seconds of wall clock since started
    current_time,  \* volatile rel_time_t current_time
    oldest_live,   \* settings.oldest_live
    items,         \* the item storage: slot -> item
    hash,          \* the hash chain (assoc): linked items, newest first
    lru,           \* the LRU chain, head first
    todelete,      \* item **todelete, entries 0 .. delcurr-1
    deltotal,      \* capacity of todelete
    conn,          \* the connections
    hist,          \* per connection: the command it has just processed (history)
    watch,         \* per connection: the item its last set stored (history)
    rt,            \* the last application of realtime (history)
    arith_cmds,    \* stats->arith_cmds
    oplog,         \* the commands answered so far, with their replies (history)
    sock,          \* per connection: the bytes the client has sent that wait in the socket
    udp            \* a connection on the UDP socket building and sending one response

vars == <<started, time0, current_time, oldest_live, items, hash, lru,
          todelete, deltotal, conn, hist, watch, rt, arith_cmds, oplog,
          sock, udp>>

----------------------------------------------------------------------------
(* Fixed-width integers.                                                   *)

LIMB == 256 * 256

Digits == <<"0", "1", "2", "3", "4", "5", "6", "7", "8", "9">>

NUL == "NUL"

IsDigit(ch) == \E i \in 1..10 : Digits[i] = ch

DigitVal(ch) == (CHOOSE i \in 1..10 : Digits[i] = ch) - 1

ZeroL(n) == [i \in 1..n |-> 0]

OnesL(n) == [i \in 1..n |-> LIMB - 1]

\* v is a natural number below 2^31
FromNat(v, n) ==
    [i \in 1..n |-> IF i = 1 THEN v % LIMB ELSE IF i = 2 THEN v \div LIMB ELSE 0]

RECURSIVE CarryL(_, _, _, _)
CarryL(a, b, i, c0) ==
    IF i = 1 THEN c0 ELSE (a[i-1] + b[i-1] + CarryL(a, b, i-1, c0)) \div LIMB

\* a + b + c0 modulo 2^(16 * Len(a))
AddL(a, b, c0) == [i \in 1..Len(a) |-> (a[i] + b[i] + CarryL(a, b, i, c0)) % LIMB]

NotL(a) == [i \in 1..Len(a) |-> LIMB - 1 - a[i]]

\* a - b modulo 2^(16 * Len(a))
SubL(a, b) == AddL(a, NotL(b), 1)

NegL(a) == SubL(ZeroL(Len(a)), a)

FromInt(v, n) == IF v >= 0 THEN FromNat(v, n) ELSE NegL(FromNat(0 - v, n))

RECURSIVE LtUFrom(_, _, _)
LtUFrom(a, b, i) ==
    IF i = 0 THEN FALSE
    ELSE IF a[i] # b[i] THEN a[i] < b[i]
    ELSE LtUFrom(a, b, i - 1)

\* unsigned a < b
LtU(a, b) == LtUFrom(a, b, Len(a))

LeU(a, b) == ~LtU(b, a)

IsNegL(a) == a[Len(a)] >= LIMB \div 2

\* signed (two's complement) a < b
LtS(a, b) == IF IsNegL(a) # IsNegL(b) THEN IsNegL(a) ELSE LtU(a, b)

LeS(a, b) == ~LtS(b, a)

\* conversion to a narrower type keeps the low limbs
TruncL(a, n) == SubSeq(a, 1, n)

\* conversion of an unsigned value to a wider type
ZExtL(a, n) == [i \in 1..n |-> IF i <= Len(a) THEN a[i] ELSE 0]

RECURSIVE MulCarryL(_, _, _, _)
MulCarryL(a, m, d, i) ==
    IF i = 1 THEN d ELSE (a[i-1] * m + MulCarryL(a, m, d, i-1)) \div LIMB

\* a * m + d for small m, d: the value modulo 2^(16 * Len(a)) and the overflow
MulAddL(a, m, d) ==
    [val |-> [i \in 1..Len(a) |-> (a[i] * m + MulCarryL(a, m, d, i)) % LIMB],
     ovf |-> MulCarryL(a, m, d, Len(a) + 1) > 0]

RECURSIVE DivRemL(_, _, _)
DivRemL(a, m, i) ==
    IF i > Len(a) THEN 0 ELSE (DivRemL(a, m, i + 1) * LIMB + a[i]) % m

\* a divided by a small m
DivL(a, m) == [i \in 1..Len(a) |-> (DivRemL(a, m, i + 1) * LIMB + a[i]) \div m]

ModL(a, m) == DivRemL(a, m, 1)

----------------------------------------------------------------------------
(* libc conversions, LP64: long and unsigned long have 64 bits.            *)

LongLimbs == 4

IntLimbs == 2

\* the element of a one-element set
Only(S) == CHOOSE x \in S : TRUE

RECURSIVE ScanDigits(_, _, _, _)
ScanDigits(s, i, acc, ovf) ==
    IF i > Len(s) \/ ~IsDigit(s[i])
    THEN [val |-> acc, erange |-> ovf, end |-> i]
    ELSE LET r == MulAddL(acc, 10, DigitVal(s[i]))
         IN  ScanDigits(s, i + 1, r.val, ovf \/ r.ovf)

HasSign(s) == Len(s) > 0 /\ s[1] \in {"-", "+"}

\* strtoul(s, NULL, 10): s is a token (no leading white space)
strtoul(s) ==
    LET first == IF HasSign(s) THEN 2 ELSE 1
        r     == ScanDigits(s, first, ZeroL(LongLimbs), FALSE)
        neg   == HasSign(s) /\ s[1] = "-"
    IN  IF r.end = first THEN [val |-> ZeroL(LongLimbs), erange |-> FALSE]
        ELSE IF r.erange THEN [val |-> OnesL(LongLimbs), erange |-> TRUE]
        ELSE [val |-> IF neg THEN NegL(r.val) ELSE r.val, erange |-> FALSE]

LONG_MIN == [i \in 1..LongLimbs |-> IF i = LongLimbs THEN LIMB \div 2 ELSE 0]

LONG_MAX == NotL(LONG_MIN)

\* strtol(s, NULL, 10)
strtol(s) ==
    LET first == IF HasSign(s) THEN 2 ELSE 1
        r     == ScanDigits(s, first, ZeroL(LongLimbs), FALSE)
        neg   == HasSign(s) /\ s[1] = "-"
    IN  IF r.end = first THEN [val |-> ZeroL(LongLimbs), erange |-> FALSE]
        ELSE IF neg
        THEN IF r.erange \/ LtU(LONG_MIN, r.val)
             THEN [val |-> LONG_MIN, erange |-> TRUE]
             ELSE [val |-> NegL(r.val), erange |-> FALSE]
        ELSE IF r.erange \/ LtU(LONG_MAX, r.val)
             THEN [val |-> LONG_MAX, erange |-> TRUE]
             ELSE [val |-> r.val, erange |-> FALSE]

RECURSIVE Utoa(_)
\* the text of printf("%u", a)
Utoa(a) ==
    IF a = FromNat(ModL(a, 10), Len(a))
    THEN <<Digits[ModL(a, 10) + 1]>>
    ELSE Utoa(DivL(a, 10)) \o <<Digits[ModL(a, 10) + 1]>>

----------------------------------------------------------------------------
(* Time.                                                                   *)

REALTIME_MAXDELTA == 60 * 60 * 24 * 30

\* rel_time_t realtime(const time_t exptime), reading current_time as now
realtime_at(exptime, now) ==
    IF exptime = ZeroL(LongLimbs) THEN ZeroL(IntLimbs)
    ELSE IF LtS(FromNat(REALTIME_MAXDELTA, LongLimbs), exptime)
         THEN IF LeS(exptime, started)
              THEN FromNat(1, IntLimbs)
              ELSE TruncL(SubL(exptime, started), IntLimbs)
         ELSE TruncL(AddL(exptime, ZExtL(now, LongLimbs), 0), IntLimbs)

realtime(exptime) == realtime_at(exptime, current_time)

\* current_time = (rel_time_t) (time(0) - started)
set_current_time == TruncL(FromNat(time0, LongLimbs), IntLimbs)

----------------------------------------------------------------------------
(* Bounds of the model.                                                    *)

NumConns == 2

MaxItems == 3

MaxTime == 1

MaxRefcount == 4

\* the incr and decr commands of a behaviour
MaxArith == 2

Conns == 1..NumConns

ItemIds == 1..MaxItems

----------------------------------------------------------------------------
(* The item store (items.h): items, the hash index, the LRU chain.         *)

U32(v) == FromNat(v, IntLimbs)

\* the bytes of an allocated value that nothing has written yet
Uninit(n) == [i \in 1..n |-> "?"]

NoItem ==
    [used |-> FALSE, key |-> <<>>, flags |-> U32(0), exptime |-> U32(0),
     time |-> U32(0), data |-> <<>>, cap |-> 0, refcount |-> 0,
     linked |-> FALSE, deleted |-> FALSE, flushed |-> FALSE]

Store == [items |-> items, hash |-> hash, lru |-> lru]

Without(s, id) == SelectSeq(s, LAMBDA x : x # id)

\* assoc_find: the first item of the chain with this key, 0 for none
assoc_find(st, key) ==
    LET hits == SelectSeq(st.hash, LAMBDA x : st.items[x].key = key)
    IN  IF hits = <<>> THEN 0 ELSE hits[1]

\* storage is freed when the reference count is zero and the item is unlinked
item_free(st, id) ==
    IF st.items[id].refcount = 0 /\ ~st.items[id].linked
    THEN [st EXCEPT !.items[id] = NoItem]
    ELSE st

do_item_deref(st, id) ==
    item_free([st EXCEPT !.items[id].refcount = @ - 1], id)

do_item_unlink(st, id) ==
    IF st.items[id].linked
    THEN item_free([st EXCEPT !.items[id].linked = FALSE,
                              !.items[id].refcount = @ - 1,
                              !.hash = Without(@, id),
                              !.lru = Without(@, id)], id)
    ELSE st

do_item_link(st, id) ==
    [st EXCEPT !.items[id].linked = TRUE,
               !.items[id].refcount = @ + 1,
               !.items[id].time = current_time,
               !.hash = <<id>> \o @,
               !.lru = <<id>> \o @]

do_item_update(st, id) ==
    IF st.items[id].linked
    THEN [st EXCEPT !.lru = <<id>> \o Without(@, id)]
    ELSE st

do_item_replace(st, old, new) == do_item_link(do_item_unlink(st, old), new)

\* expired: the expiry time has come, or the item is behind the flush horizon
item_expired(it) ==
    \/ it.exptime # U32(0) /\ LeU(it.exptime, current_time)
    \/ LeU(it.time, oldest_live)

\* the delete window of a queued item has passed
item_delete_lock_over(it) == LeU(it.exptime, current_time)

\* item *do_item_get_notedeleted(key, nkey, bool *delete_locked)
do_item_get_notedeleted(st, key) ==
    LET id == assoc_find(st, key)
    IN  IF id = 0 THEN [st |-> st, it |-> 0, delete_locked |-> FALSE]
        ELSE IF st.items[id].deleted
        THEN [st |-> st, it |-> 0, delete_locked |-> TRUE]
        ELSE IF item_expired(st.items[id])
        THEN [st |-> do_item_unlink(st, id), it |-> 0, delete_locked |-> FALSE]
        ELSE [st |-> [st EXCEPT !.items[id].refcount = @ + 1], it |-> id,
              delete_locked |-> FALSE]

\* item *do_item_get_nocheck(key, nkey)
do_item_get_nocheck(st, key) ==
    LET id == assoc_find(st, key)
    IN  IF id = 0 THEN [st |-> st, it |-> 0]
        ELSE [st |-> [st EXCEPT !.items[id].refcount = @ + 1], it |-> id]

FreeSlots(st) == {id \in ItemIds : ~st.items[id].used}

\* the item nearest the LRU tail that nothing but the index references
EvictionVictim(st) ==
    LET free == SelectSeq(st.lru, LAMBDA x : st.items[x].refcount = 1)
    IN  IF free = <<>> THEN 0 ELSE free[Len(free)]

\* the largest value an item holds
ITEM_MAX_NBYTES == 10

item_size_ok(nbytes) == nbytes >= 0 /\ nbytes <= ITEM_MAX_NBYTES

\* the item an allocation evicts: none while a slot is free
AllocEvicts(st) == IF FreeSlots(st) = {} THEN EvictionVictim(st) ELSE 0

\* item *do_item_alloc(key, nkey, flags, exptime, nbytes, addr)
do_item_alloc(st, key, flags, exptime, nbytes) ==
    LET victim == AllocEvicts(st)
        st1 == IF victim = 0 THEN st ELSE do_item_unlink(st, victim)
        id  == IF FreeSlots(st1) = {} THEN 0
               ELSE CHOOSE x \in FreeSlots(st1) : \A y \in FreeSlots(st1) : x <= y
    IN  IF ~item_size_ok(nbytes) THEN [st |-> st, it |-> 0]
        ELSE IF id = 0 THEN [st |-> st1, it |-> 0]
        ELSE [st |-> [st1 EXCEPT !.items[id] =
                         [used |-> TRUE, key |-> key, flags |-> flags,
                          exptime |-> exptime, time |-> U32(0),
                          data |-> Uninit(nbytes), cap |-> nbytes,
                          refcount |-> 1, linked |-> FALSE, deleted |-> FALSE,
                          flushed |-> FALSE]],
              it |-> id]

----------------------------------------------------------------------------
(* The store decision.                                                     *)

NREAD_ADD == "NREAD_ADD"

NREAD_SET == "NREAD_SET"

NREAD_REPLACE == "NREAD_REPLACE"

\* do_store_item without the item_update of an add that finds the key
do_store_item_notouch(st, it, comm, key) ==
    LET g      == do_item_get_notedeleted(st, key)
        old_it == g.it
        locked == g.delete_locked
        h      == do_item_get_nocheck(g.st, key)
        old2   == IF locked THEN h.it ELSE old_it
        st2    == IF locked THEN h.st ELSE g.st
        r == IF old_it # 0 /\ comm = NREAD_ADD
             THEN [st |-> g.st, old |-> old_it, stored |-> 0]
             ELSE IF old_it = 0 /\ comm = NREAD_REPLACE
             THEN [st |-> g.st, old |-> old_it, stored |-> 0]
             ELSE IF locked /\ comm \in {NREAD_REPLACE, NREAD_ADD}
             THEN [st |-> g.st, old |-> old_it, stored |-> 0]
             ELSE [st |-> IF old2 # 0 THEN do_item_replace(st2, old2, it)
                          ELSE do_item_link(st2, it),
                   old |-> old2, stored |-> 1]
    IN  [st |-> IF r.old # 0 THEN do_item_deref(r.st, r.old) ELSE r.st,
         stored |-> r.stored]

\* do_store_item with a replace that links where there is no item
do_store_item_replace_links(st, it, comm, key) ==
    LET g      == do_item_get_notedeleted(st, key)
        old_it == g.it
        locked == g.delete_locked
        h      == do_item_get_nocheck(g.st, key)
        old2   == IF locked THEN h.it ELSE old_it
        st2    == IF locked THEN h.st ELSE g.st
        r == IF old_it # 0 /\ comm = NREAD_ADD
             THEN [st |-> do_item_update(g.st, old_it), old |-> old_it, stored |-> 0]
             ELSE IF old_it = 0 /\ comm = NREAD_REPLACE /\ locked
             THEN [st |-> g.st, old |-> old_it, stored |-> 0]
             ELSE IF locked /\ comm \in {NREAD_REPLACE, NREAD_ADD}
             THEN [st |-> g.st, old |-> old_it, stored |-> 0]
             ELSE [st |-> IF old2 # 0 THEN do_item_replace(st2, old2, it)
                          ELSE do_item_link(st2, it),
                   old |-> old2, stored |-> 1]
    IN  [st |-> IF r.old # 0 THEN do_item_deref(r.st, r.old) ELSE r.st,
         stored |-> r.stored]

\* do_store_item with an add that takes a delete-locked key for absent
do_store_item_lock_ignored(st, it, comm, key) ==
    LET g      == do_item_get_notedeleted(st, key)
        old_it == g.it
        locked == g.delete_locked
        h      == do_item_get_nocheck(g.st, key)
        old2   == IF locked THEN h.it ELSE old_it
        st2    == IF locked THEN h.st ELSE g.st
        r == IF old_it # 0 /\ comm = NREAD_ADD
             THEN [st |-> do_item_update(g.st, old_it), old |-> old_it, stored |-> 0]
             ELSE IF old_it = 0 /\ comm = NREAD_REPLACE
             THEN [st |-> g.st, old |-> old_it, stored |-> 0]
             ELSE IF locked /\ comm \in {NREAD_REPLACE}
             THEN [st |-> g.st, old |-> old_it, stored |-> 0]
             ELSE [st |-> IF old2 # 0 THEN do_item_replace(st2, old2, it)
                          ELSE do_item_link(st2, it),
                   old |-> old2, stored |-> 1]
    IN  [st |-> IF r.old # 0 THEN do_item_deref(r.st, r.old) ELSE r.st,
         stored |-> r.stored]

\* do_store_item with a set that does not look for the item a delete hides
do_store_item_hidden_kept(st, it, comm, key) ==
    LET g      == do_item_get_notedeleted(st, key)
        old_it == g.it
        locked == g.delete_locked
        r == IF old_it # 0 /\ comm = NREAD_ADD
             THEN [st |-> do_item_update(g.st, old_it), old |-> old_it, stored |-> 0]
             ELSE IF old_it = 0 /\ comm = NREAD_REPLACE
             THEN [st |-> g.st, old |-> old_it, stored |-> 0]
             ELSE IF locked /\ comm \in {NREAD_REPLACE, NREAD_ADD}
             THEN [st |-> g.st, old |-> old_it, stored |-> 0]
             ELSE [st |-> IF old_it # 0 THEN do_item_replace(g.st, old_it, it)
                          ELSE do_item_link(g.st, it),
                   old |-> old_it, stored |-> 1]
    IN  [st |-> IF r.old # 0 THEN do_item_deref(r.st, r.old) ELSE r.st,
         stored |-> r.stored]

\* int do_store_item(item *it, int comm, const char *key)
do_store_item(st, it, comm, key) ==
    LET g      == do_item_get_notedeleted(st, key)
        old_it == g.it
        locked == g.delete_locked
        h      == do_item_get_nocheck(g.st, key)
        old2   == IF locked THEN h.it ELSE old_it
        st2    == IF locked THEN h.st ELSE g.st
        r == IF old_it # 0 /\ comm = NREAD_ADD
             THEN [st |-> do_item_update(g.st, old_it), old |-> old_it, stored |-> 0]
             ELSE IF old_it = 0 /\ comm = NREAD_REPLACE
             THEN [st |-> g.st, old |-> old_it, stored |-> 0]
             ELSE IF locked /\ comm \in {NREAD_REPLACE, NREAD_ADD}
             THEN [st |-> g.st, old |-> old_it, stored |-> 0]
             ELSE [st |-> IF old2 # 0 THEN do_item_replace(st2, old2, it)
                          ELSE do_item_link(st2, it),
                   old |-> old2, stored |-> 1]
    IN  [st |-> IF r.old # 0 THEN do_item_deref(r.st, r.old) ELSE r.st,
         stored |-> r.stored]

----------------------------------------------------------------------------
(* The words of the protocol, as bytes.                                    *)

W_get == <<"g", "e", "t">>

W_bget == <<"b", "g", "e", "t">>

W_add == <<"a", "d", "d">>

W_set == <<"s", "e", "t">>

W_replace == <<"r", "e", "p", "l", "a", "c", "e">>

W_incr == <<"i", "n", "c", "r">>

W_decr == <<"d", "e", "c", "r">>

W_delete == <<"d", "e", "l", "e", "t", "e">>

W_metaget == <<"m", "e", "t", "a", "g", "e", "t">>

W_own == <<"o", "w", "n">>

W_disown == <<"d", "i", "s", "o", "w", "n">>

W_bg == <<"b", "g">>

W_stats == <<"s", "t", "a", "t", "s">>

W_version == <<"v", "e", "r", "s", "i", "o", "n">>

W_quit == <<"q", "u", "i", "t">>

W_flush_regex == <<"f", "l", "u", "s", "h", "_", "r", "e", "g", "e", "x">>

W_verbosity == <<"v", "e", "r", "b", "o", "s", "i", "t", "y">>

W_flush_all == <<"f", "l", "u", "s", "h", "_", "a", "l", "l">>

R_STORED == <<"S", "T", "O", "R", "E", "D">>

R_NOT_STORED == <<"N", "O", "T", "_", "S", "T", "O", "R", "E", "D">>

R_DELETED == <<"D", "E", "L", "E", "T", "E", "D">>

R_NOT_FOUND == <<"N", "O", "T", "_", "F", "O", "U", "N", "D">>

R_OK == <<"O", "K">>

R_ERROR == <<"E", "R", "R", "O", "R">>

R_BAD_CHUNK == <<"C", "L", "I", "E", "N", "T", "_", "E", "R", "R", "O", "R", " ", "b", "a", "d", " ", "d", "a", "t", "a", " ", "c", "h", "u", "n", "k">>

R_BAD_FORMAT == <<"C", "L", "I", "E", "N", "T", "_", "E", "R", "R", "O", "R", " ", "b", "a", "d", " ", "c", "o", "m", "m", "a", "n", "d", " ", "l", "i", "n", "e", " ", "f", "o", "r", "m", "a", "t">>

R_OOM == <<"S", "E", "R", "V", "E", "R", "_", "E", "R", "R", "O", "R", " ", "o", "u", "t", " ", "o", "f", " ", "m", "e", "m", "o", "r", "y">>

R_TOO_LARGE == <<"S", "E", "R", "V", "E", "R", "_", "E", "R", "R", "O", "R", " ", "o", "b", "j", "e", "c", "t", " ", "t", "o", "o", " ", "l", "a", "r", "g", "e", " ", "f", "o", "r", " ", "c", "a", "c", "h", "e">>

R_MULTI ==
    <<"S", "E", "R", "V", "E", "R", "_", "E", "R", "R", "O", "R", " ",
    "m", "u", "l", "t", "i", "-", "p", "a", "c", "k", "e", "t", " ", "r",
    "e", "q", "u", "e", "s", "t", " ", "n", "o", "t", " ", "s", "u", "p",
    "p", "o", "r", "t", "e", "d">>

S_VALUE == <<"V", "A", "L", "U", "E", " ">>

S_END == <<"E", "N", "D", "\r", "\n">>

S_META == <<"M", "E", "T", "A", " ">>

CRLF == <<"\r", "\n">>

----------------------------------------------------------------------------
(* The tokenizer.                                                          *)

MAX_TOKENS == 6

KEY_TOKEN == 2

KEY_MAX_LENGTH == 250

\* the terminal token: value 0 is NULL
TerminalToken(buf, e) == [value |-> IF buf[e] = NUL THEN 0 ELSE e, length |-> 0]

RECURSIVE TokenizeLoop(_, _, _, _, _)
TokenizeLoop(buf, s, e, toks, max_tokens) ==
    IF Len(toks) >= max_tokens - 1
    THEN [buf |-> buf, tokens |-> Append(toks, TerminalToken(buf, e))]
    ELSE IF buf[e] = " "
    THEN IF s # e
         THEN TokenizeLoop([buf EXCEPT ![e] = NUL], e + 1, e + 1,
                           Append(toks, [value |-> s, length |-> e - s]), max_tokens)
         ELSE TokenizeLoop(buf, e + 1, e + 1, toks, max_tokens)
    ELSE IF buf[e] = NUL
    THEN LET toks1 == IF s # e THEN Append(toks, [value |-> s, length |-> e - s])
                      ELSE toks
         IN  [buf |-> buf, tokens |-> Append(toks1, TerminalToken(buf, e))]
    ELSE TokenizeLoop(buf, s, e + 1, toks, max_tokens)

\* size_t tokenize_command(char *command, token_t *tokens, size_t max_tokens):
\* command is position `command` of the NUL-terminated buffer buf
tokenize_command(buf, command, max_tokens) ==
    TokenizeLoop(buf, command, command, <<>>, max_tokens)

RECURSIVE StrLen(_, _)
StrLen(buf, p) == IF buf[p] = NUL THEN 0 ELSE 1 + StrLen(buf, p + 1)

\* the C string at position p of buf
CStr(buf, p) == SubSeq(buf, p, p + StrLen(buf, p) - 1)

TokenBytes(buf, t) == SubSeq(buf, t.value, t.value + t.length - 1)

----------------------------------------------------------------------------
(* Connections.                                                            *)

\* entries of the scatter list of a connection (c->iovsize)
IovSize == 8

NoGet == [buf |-> <<>>, pos |-> 0, pend |-> <<>>]

\* the entries of a new list of items to transmit
ITEM_LIST_INITIAL == 1

\* the delete handler between its item_get and its item_unlink or
\* defer_delete: the line it runs on and the item it found
NoDel == [on |-> FALSE, line |-> <<>>, it |-> 0]

\* conn_new
NewConn ==
    [state |-> "conn_read", item |-> 0, item_comm |-> "", update_key |-> <<>>,
     ilist |-> <<>>, iov |-> <<>>, wbuf |-> <<>>, write_and_go |-> "conn_read",
     sbytes |-> 0, get |-> NoGet, del |-> NoDel,
     udp |-> FALSE, request_id |-> 0, rbuf |-> <<>>, rtodo |-> 0, ritem |-> <<>>,
     sent |-> 0, stop |-> TRUE, nreqs |-> 0, ncmds |-> 0,
     thread |-> 0, ev_flags |-> "EV_READ", isize |-> ITEM_LIST_INITIAL]

\* a fragment of the scatter list points at static text, at an item's key,
\* at an item's value, or into the write buffer
LitFrag(b) == [k |-> "lit", it |-> 0, off |-> 0, len |-> Len(b), b |-> b]

KeyFrag(it) == [k |-> "key", it |-> it, off |-> 0, len |-> 0, b |-> <<>>]

ValueFrag(it) == [k |-> "value", it |-> it, off |-> 0, len |-> 0, b |-> <<>>]

WbufFrag(off, len) == [k |-> "wbuf", it |-> 0, off |-> off, len |-> len, b |-> <<>>]

\* the bytes a fragment points at
FragBytes(f, cn, its) ==
    CASE f.k = "lit"   -> f.b
      [] f.k = "key"   -> its[f.it].key
      [] f.k = "value" -> its[f.it].data \o CRLF
      [] f.k = "wbuf"  -> SubSeq(cn.wbuf, f.off + 1, f.off + f.len)

RECURSIVE IovBytes(_, _, _)
IovBytes(iov, cn, its) ==
    IF iov = <<>> THEN <<>>
    ELSE FragBytes(Head(iov), cn, its) \o IovBytes(Tail(iov), cn, its)

\* static void conn_set_state(conn *c, int state)
conn_set_state(cn, state) ==
    IF state # cn.state
    THEN IF state = "conn_read"
         THEN [cn EXCEPT !.state = state, !.iov = <<>>]
         ELSE [cn EXCEPT !.state = state]
    ELSE cn

\* static void out_string(conn *c, const char *str)
out_string(cn, str) ==
    [conn_set_state([cn EXCEPT !.iov = <<>>, !.wbuf = str \o CRLF], "conn_write")
        EXCEPT !.write_and_go = "conn_read"]

\* int add_iov(conn *c, const void *buf, int len, bool is_start):
\* ensure_iov_space fails when the list is full
add_iov(cn, frag) ==
    IF Len(cn.iov) >= IovSize
    THEN [cn |-> cn, rc |-> -1]
    ELSE [cn |-> [cn EXCEPT !.iov = Append(@, frag)], rc |-> 0]

RECURSIVE add_iovs(_, _)
\* a chain of add_iov calls joined by ||: stops at the first failure
add_iovs(cn, frags) ==
    IF frags = <<>> THEN [cn |-> cn, rc |-> 0]
    ELSE LET r == add_iov(cn, Head(frags))
         IN  IF r.rc # 0 THEN r ELSE add_iovs(r.cn, Tail(frags))

----------------------------------------------------------------------------
(* Reading requests.                                                       *)

\* a datagram is its first eight bytes, hdr, and the bytes after them
DatagramLen(d) == Len(d.hdr) + Len(d.payload)

\* try_read_udp that looks at the low byte of the datagram count only
try_read_udp_low_byte(cn, d) ==
    IF DatagramLen(d) > 8
    THEN IF d.hdr[6] # 1
         THEN [cn |-> out_string([cn EXCEPT !.request_id = d.hdr[1] * 256 + d.hdr[2]],
                                 R_MULTI),
               rc |-> 0]
         ELSE [cn |-> [cn EXCEPT !.request_id = d.hdr[1] * 256 + d.hdr[2],
                                 !.rbuf = d.payload],
               rc |-> 1]
    ELSE [cn |-> cn, rc |-> 0]

\* int try_read_udp(conn *c): recvfrom has returned the datagram d;
\* alloc_conn_buffer gives the read buffer
try_read_udp(cn, d) ==
    IF DatagramLen(d) > 8
    THEN IF d.hdr[5] # 0 \/ d.hdr[6] # 1
         THEN [cn |-> out_string([cn EXCEPT !.request_id = d.hdr[1] * 256 + d.hdr[2]],
                                 R_MULTI),
               rc |-> 0]
         ELSE [cn |-> [cn EXCEPT !.request_id = d.hdr[1] * 256 + d.hdr[2],
                                 !.rbuf = d.payload],
               rc |-> 1]
    ELSE [cn |-> cn, rc |-> 0]

\* memchr(c->rcurr, '\n', c->rbytes): the position of the line end, 0 for none
LineEnd(rbuf) ==
    IF \E i \in 1..Len(rbuf) : rbuf[i] = "\n"
    THEN CHOOSE i \in 1..Len(rbuf) : rbuf[i] = "\n" /\ \A j \in 1..(i - 1) : rbuf[j] # "\n"
    ELSE 0

\* try_read_command: the command line in front of the line end at el
CommandLine(rbuf, el) ==
    IF el - 1 > 1 /\ rbuf[el - 1] = "\r" THEN SubSeq(rbuf, 1, el - 2)
    ELSE SubSeq(rbuf, 1, el - 1)

----------------------------------------------------------------------------
(* The message list of a response: msghdr entries over the scatter list.   *)

\* bytes of a datagram, its header included
UDP_MAX_PAYLOAD_SIZE == 16

UDP_HEADER_SIZE == 8

IOV_MAX == 1024

\* the connection as add_msghdr, add_iov and build_udp_headers see it:
\* iov entries are [h |-> header bytes, b |-> payload bytes]; a message is
\* msg_iovlen entries of iov from entry first + 1 on
NewMsgConn(is_udp, iovsize, request_id) ==
    [udp |-> is_udp, iovsize |-> iovsize, request_id |-> request_id,
     iov |-> <<>>, msglist |-> <<>>, msgbytes |-> 0]

ensure_iov_space(c) == IF Len(c.iov) >= c.iovsize THEN -1 ELSE 0

\* the body of add_iov's loop from the store into msg_iov on: one entry of
\* len bytes goes into the last message
add_iov_entry(c, h, b, len, is_start) ==
    LET k == Len(c.msglist)
        m == c.msglist[k]
        mark == c.udp /\ is_start /\ m.msg_flags = 0
    IN  [c EXCEPT !.iov = Append(@, [h |-> h, b |-> b, len |-> len]),
                  !.msgbytes = @ + len,
                  !.msglist[k] =
                      [m EXCEPT !.msg_iovlen = @ + 1,
                                !.msg_flags = IF mark THEN 1 ELSE @,
                                !.msg_controllen = IF mark THEN m.msg_iovlen ELSE @]]

\* add_msghdr without the header that add_iov appends for UDP
add_msghdr_tcp(c) ==
    IF ensure_iov_space(c) # 0 THEN [c |-> c, rc |-> -1]
    ELSE [c |-> [c EXCEPT !.msglist = Append(@, [first |-> Len(c.iov),
                                                  msg_iovlen |-> 0, msg_flags |-> 0,
                                                  msg_controllen |-> 0]),
                          !.msgbytes = 0],
          rc |-> 0]

\* int add_msghdr(conn *c): pool_realloc gives the memory for the message
\* list; for UDP the message starts with room for the header
add_msghdr(c) ==
    IF ensure_iov_space(c) # 0 THEN [c |-> c, rc |-> -1]
    ELSE IF c.udp
    THEN [c |-> add_iov_entry(add_msghdr_tcp(c).c, <<>>, <<>>, UDP_HEADER_SIZE, FALSE),
          rc |-> 0]
    ELSE add_msghdr_tcp(c)

\* the message add_iov writes into: a new one when the last one is full
add_iov_room(c, limit_to_mtu) ==
    IF c.msglist[Len(c.msglist)].msg_iovlen = IOV_MAX
           \/ (limit_to_mtu /\ c.msgbytes >= UDP_MAX_PAYLOAD_SIZE)
    THEN add_msghdr(c).c
    ELSE c

\* the bytes of the fragment that go into this message
add_iov_len(c, len, limit_to_mtu) ==
    IF limit_to_mtu /\ len + c.msgbytes > UDP_MAX_PAYLOAD_SIZE
    THEN UDP_MAX_PAYLOAD_SIZE - c.msgbytes
    ELSE len

RECURSIVE add_iov_msg(_, _, _)
\* int add_iov(conn *c, const void *buf, int len, bool is_start) on the
\* message list
add_iov_msg(c, buf, is_start) ==
    LET limit_to_mtu == c.udp \/ Len(c.msglist) = 1
    IN  Only({IF ensure_iov_space(c1) # 0 THEN [c |-> c1, rc |-> -1]
              ELSE Only({IF n < Len(buf)
                         THEN add_iov_msg(add_iov_entry(c1, <<>>, SubSeq(buf, 1, n), n,
                                                        is_start),
                                          SubSeq(buf, n + 1, Len(buf)), FALSE)
                         ELSE [c |-> add_iov_entry(c1, <<>>, buf, n, is_start), rc |-> 0] :
                            n \in {add_iov_len(c1, Len(buf), limit_to_mtu)}}) :
                 c1 \in {add_iov_room(c, limit_to_mtu)}})

RECURSIVE SumLen(_)
SumLen(es) == IF es = <<>> THEN 0 ELSE Head(es).len + SumLen(Tail(es))

\* the entries of message i
MsgIov(c, i) ==
    SubSeq(c.iov, c.msglist[i].first + 1, c.msglist[i].first + c.msglist[i].msg_iovlen)

\* build_udp_headers: the offset of the first response line in message i
HeaderOffset(c, i) ==
    IF c.msglist[i].msg_flags # 0
    THEN SumLen(SubSeq(MsgIov(c, i), 1, c.msglist[i].msg_controllen))
    ELSE 0

\* build_udp_headers: the eight bytes of the header of message i + 1
UdpHeader(c, i) ==
    <<(c.request_id \div 256) % 256, c.request_id % 256,
      (i \div 256) % 256, i % 256,
      (Len(c.msglist) \div 256) % 256, Len(c.msglist) % 256,
      (HeaderOffset(c, i + 1) \div 256) % 256, HeaderOffset(c, i + 1) % 256>>

\* int build_udp_headers(conn *c): pool_malloc gives the header buffer
build_udp_headers(c) ==
    [c EXCEPT !.iov = [e \in DOMAIN c.iov |->
                          IF \E i \in DOMAIN c.msglist : c.msglist[i].first + 1 = e
                          THEN [c.iov[e] EXCEPT !.h =
                                   UdpHeader(c, (CHOOSE i \in DOMAIN c.msglist :
                                                    c.msglist[i].first + 1 = e) - 1)]
                          ELSE c.iov[e]],
              !.msglist = [i \in DOMAIN c.msglist |->
                              [c.msglist[i] EXCEPT !.msg_flags = 0,
                                                   !.msg_controllen = 0]]]

RECURSIVE EntryBytes(_)
\* the payload bytes of a run of entries
EntryBytes(es) == IF es = <<>> THEN <<>> ELSE Head(es).b \o EntryBytes(Tail(es))

----------------------------------------------------------------------------
(* get.                                                                    *)

\* the length printed with the two bytes that end the value
FlagsLenString_crlf(it) ==
    <<" ">> \o Utoa(it.flags) \o <<" ">> \o Utoa(U32(Len(it.data) + 2)) \o CRLF

\* snprintf(c->wcurr, FLAGS_LENGTH_STRING_LEN + 1, " %u %u\r\n", flags, nbytes)
FlagsLenString(it) ==
    <<" ">> \o Utoa(it.flags) \o <<" ">> \o Utoa(U32(Len(it.data))) \o CRLF

\* one hit of process_get_command: g is the state of the running handler,
\* g.grown says whether pool_realloc gives memory when the list of items
\* is full
GetHit(g, id) ==
    LET s   == FlagsLenString(g.st.items[id])
        cn0 == IF Len(g.pend) >= g.cn.isize THEN [g.cn EXCEPT !.isize = @ * 2]
               ELSE g.cn
        cn1 == [cn0 EXCEPT !.wbuf = @ \o s]
        r   == add_iovs(cn1, <<LitFrag(S_VALUE), KeyFrag(id),
                               WbufFrag(Len(g.cn.wbuf), Len(s)), ValueFrag(id)>>)
    IN  IF Len(g.pend) >= g.cn.isize /\ ~g.grown
        THEN [g EXCEPT !.out = "break"]
        ELSE IF r.rc # 0
        THEN [g EXCEPT !.cn = r.cn, !.out = "break"]
        ELSE [g EXCEPT !.cn = r.cn, !.st = do_item_update(@, id),
                       !.pend = Append(@, id), !.kt = @ + 1]

RECURSIVE GetLoop(_)
\* the do ... while loop of process_get_command
GetLoop(g) ==
    LET t == g.tokens[g.kt]
    IN  IF g.out # "run" THEN g
        ELSE IF t.length # 0
        THEN IF t.length > KEY_MAX_LENGTH THEN [g EXCEPT !.out = "badkey"]
             ELSE LET r == do_item_get_notedeleted(g.st, TokenBytes(g.buf, t))
                  IN  IF r.it = 0
                      THEN GetLoop([g EXCEPT !.st = r.st, !.kt = @ + 1])
                      ELSE GetLoop(GetHit([g EXCEPT !.st = r.st, !.pos = t.value], r.it))
        ELSE IF t.value # 0
        THEN LET tk == tokenize_command(g.buf, t.value, MAX_TOKENS)
             IN  GetLoop([g EXCEPT !.buf = tk.buf, !.tokens = tk.tokens, !.kt = 1])
        ELSE [g EXCEPT !.out = "done"]

\* what process_get_command leaves when the loop has run as far as it gets:
\* after a break the handler is still inside its loop (cn.get.pos # 0)
GetFinish(g) ==
    CASE g.out = "badkey" ->
            [st |-> g.st, cn |-> [out_string(g.cn, R_BAD_FORMAT) EXCEPT !.get = NoGet]]
      [] g.out = "done" ->
            [st |-> g.st,
             cn |-> [conn_set_state(add_iov([g.cn EXCEPT !.ilist = g.pend,
                                                         !.get = NoGet],
                                            LitFrag(S_END)).cn, "conn_mwrite")
                        EXCEPT !.get = NoGet]]
      [] g.out = "break" ->
            [st |-> g.st,
             cn |-> [g.cn EXCEPT !.get = [buf |-> g.buf, pos |-> g.pos, pend |-> g.pend]]]

\* static inline void process_get_command(conn *c, token_t *tokens, size_t ntokens)
process_get_command_pool(st, cn, buf, tokens, grown) ==
    GetFinish(GetLoop([st |-> st, cn |-> cn, buf |-> buf, tokens |-> tokens,
                       kt |-> KEY_TOKEN, pend |-> <<>>, pos |-> 0, out |-> "run",
                       grown |-> grown]))

\* process_get_command with memory for the list of items
process_get_command(st, cn, buf, tokens) ==
    process_get_command_pool(st, cn, buf, tokens, TRUE)

\* one more round of the loop of a handler that broke out of the inner loop:
\* it tokenizes again from the key it stopped at
process_get_again_pool(st, cn, grown) ==
    LET tk == tokenize_command(cn.get.buf, cn.get.pos, MAX_TOKENS)
    IN  GetFinish(GetLoop([st |-> st, cn |-> cn, buf |-> tk.buf, tokens |-> tk.tokens,
                           kt |-> 1, pend |-> cn.get.pend, pos |-> cn.get.pos,
                           out |-> "run", grown |-> grown]))

\* that round with memory for the list of items
process_get_again(st, cn) == process_get_again_pool(st, cn, TRUE)

\* written = snprintf(c->wcurr, avail, " age: %s; exptime: %d; from: %s\r\n",
\* ...): an item that carries neither a timestamp nor an address
MetaString(it) ==
    <<" ", "a", "g", "e", ":", " ", "u", "n", "k", "n", "o", "w", "n", ";", " ",
      "e", "x", "p", "t", "i", "m", "e", ":", " ">> \o Utoa(it.exptime)
        \o <<";", " ", "f", "r", "o", "m", ":", " ", "u", "n", "k", "n", "o", "w", "n">>
        \o CRLF

\* static inline void process_metaget_command(conn *c, token_t *tokens,
\* size_t ntokens): the reference that item_get took is given back as soon
\* as the key is in the scatter list
process_metaget_command(st, cn, buf, tokens) ==
    LET t == tokens[KEY_TOKEN]
        r == do_item_get_notedeleted(st, TokenBytes(buf, t))
        s == MetaString(r.st.items[r.it])
        a == add_iovs([cn EXCEPT !.wbuf = @ \o s],
                      <<LitFrag(S_META), KeyFrag(r.it), WbufFrag(Len(cn.wbuf), Len(s))>>)
        m == IF r.it = 0 THEN [st |-> r.st, cn |-> cn]
             ELSE [st |-> do_item_deref(r.st, r.it), cn |-> a.cn]
        e == add_iov(m.cn, LitFrag(S_END))
    IN  IF t.length > KEY_MAX_LENGTH
        THEN [st |-> st, cn |-> out_string(cn, R_BAD_FORMAT)]
        ELSE IF e.rc # 0
        THEN [st |-> m.st, cn |-> out_string(m.cn, R_OOM)]
        ELSE [st |-> m.st, cn |-> conn_set_state(e.cn, "conn_mwrite")]

----------------------------------------------------------------------------
(* set, add, replace.                                                      *)

\* the value of a C int
IntVal(a) ==
    IF a[2] < LIMB \div 2 THEN a[1] + LIMB * a[2]
    ELSE 0 - ((LIMB - 1 - a[1]) + LIMB * (LIMB - 1 - a[2]) + 1)

\* static void process_update_command(conn *c, token_t *tokens, ntokens, int comm)
process_update_command(st, cn, buf, tokens, comm) ==
    LET key     == TokenBytes(buf, tokens[KEY_TOKEN])
        flags   == strtoul(CStr(buf, tokens[3].value))
        exptime == strtol(CStr(buf, tokens[4].value))
        vl      == strtol(CStr(buf, tokens[5].value))
        vlen    == IntVal(TruncL(vl.val, IntLimbs))
        a       == do_item_alloc(st, key, TruncL(flags.val, IntLimbs),
                                 realtime(exptime.val), vlen)
    IN  IF tokens[KEY_TOKEN].length > KEY_MAX_LENGTH
        THEN [st |-> st, cn |-> out_string(cn, R_BAD_FORMAT)]
        ELSE IF flags.erange \/ exptime.erange \/ vl.erange
        THEN [st |-> st, cn |-> out_string(cn, R_BAD_FORMAT)]
        ELSE IF a.it = 0
        THEN [st |-> a.st,
              cn |-> [out_string(cn, IF ~item_size_ok(vlen) THEN R_TOO_LARGE ELSE R_OOM)
                         EXCEPT !.write_and_go = "conn_swallow",
                                !.sbytes = IntVal(AddL(TruncL(vl.val, IntLimbs), U32(2), 0))]]
        ELSE [st |-> a.st,
              cn |-> [conn_set_state(cn, "conn_nread")
                         EXCEPT !.update_key = key, !.item_comm = comm, !.item = a.it]]

\* complete_nread without the comparison of the two bytes after the value
complete_nread_unchecked(st, cn, data, crlf) ==
    LET it  == cn.item
        s   == do_store_item([st EXCEPT !.items[it].data = data], it, cn.item_comm,
                             cn.update_key)
    IN  [st |-> do_item_deref(s.st, it),
         cn |-> [out_string(cn, IF s.stored = 1 THEN R_STORED ELSE R_NOT_STORED)
                    EXCEPT !.item = 0]]

\* static void complete_nread(conn *c): data and crlf are the bytes conn_nread
\* has read into the item and into c->crlf
complete_nread(st, cn, data, crlf) ==
    LET it  == cn.item
        st1 == [st EXCEPT !.items[it].data = data]
        s   == do_store_item(st1, it, cn.item_comm, cn.update_key)
        r   == IF crlf # CRLF
               THEN [st |-> st1, cn |-> out_string(cn, R_BAD_CHUNK)]
               ELSE [st |-> s.st,
                     cn |-> out_string(cn, IF s.stored = 1 THEN R_STORED
                                           ELSE R_NOT_STORED)]
    IN  [st |-> do_item_deref(r.st, it), cn |-> [r.cn EXCEPT !.item = 0]]

----------------------------------------------------------------------------
(* incr, decr.                                                             *)

\* item_strtoul(it, 10): the value bytes read as a decimal number
item_strtoul(it) == strtoul(it.data).val

\* the new text does not fit the storage of the item
item_need_realloc(it, res) == res > it.cap

\* do_add_delta: value += delta, or the subtraction that stops at 0
add_delta_value(v0, incr, delta) ==
    IF incr THEN AddL(v0, delta, 0)
    ELSE IF LeU(v0, delta) THEN ZeroL(IntLimbs)
    ELSE SubL(v0, delta)

\* do_add_delta: the new item a has been allocated and takes the place of it
add_delta_replace(st, it, a, buf) ==
    IF a = 0
    THEN [st |-> do_item_deref(st, it), reply |-> R_OOM]
    ELSE [st |-> do_item_deref(
                     do_item_deref(
                         do_item_replace([st EXCEPT !.items[a].data = buf], it, a),
                         a), it),
          reply |-> buf]

\* do_add_delta that looks at the room of the item only
add_delta_store_room(st, key, it, buf) ==
    IF item_need_realloc(st.items[it], Len(buf))
    THEN Only({add_delta_replace(a.st, it, a.it, buf) :
                  a \in {do_item_alloc(st, key, st.items[it].flags,
                                       st.items[it].exptime, Len(buf))}})
    ELSE [st |-> do_item_deref(
                     do_item_update([st EXCEPT !.items[it].data = buf], it), it),
          reply |-> buf]

\* do_add_delta: the text buf of the new value goes into the store
add_delta_store(st, key, it, buf) ==
    IF item_need_realloc(st.items[it], Len(buf)) \/ st.items[it].refcount > 1
    THEN Only({add_delta_replace(a.st, it, a.it, buf) :
                  a \in {do_item_alloc(st, key, st.items[it].flags,
                                       st.items[it].exptime, Len(buf))}})
    ELSE [st |-> do_item_deref(
                     do_item_update([st EXCEPT !.items[it].data = buf], it), it),
          reply |-> buf]

\* char *do_add_delta(key, nkey, incr, delta, buf, res_val, addr)
do_add_delta(st, key, incr, delta) ==
    Only({IF g.it = 0 THEN [st |-> g.st, reply |-> R_NOT_FOUND]
          ELSE add_delta_store(g.st, key, g.it,
                   Utoa(add_delta_value(TruncL(item_strtoul(g.st.items[g.it]), IntLimbs),
                                        incr, delta))) :
             g \in {do_item_get_notedeleted(st, key)}})

\* static void process_arithmetic_command(conn *c, token_t *tokens, ntokens, incr)
process_arithmetic_command(st, cn, buf, tokens, incr) ==
    LET key   == TokenBytes(buf, tokens[KEY_TOKEN])
        delta == strtoul(CStr(buf, tokens[3].value))
        r     == do_add_delta(st, key, incr, TruncL(delta.val, IntLimbs))
    IN  IF tokens[KEY_TOKEN].length > KEY_MAX_LENGTH
        THEN [st |-> st, cn |-> out_string(cn, R_BAD_FORMAT)]
        ELSE IF delta.erange
        THEN [st |-> st, cn |-> out_string(cn, R_BAD_FORMAT)]
        ELSE [st |-> r.st, cn |-> out_string(cn, r.reply)]

----------------------------------------------------------------------------
(* delete.                                                                 *)

\* int do_defer_delete(item *it, time_t exptime): grown says whether
\* pool_realloc gives memory when the queue is full
do_defer_delete(st, q, it, exptime, grown) ==
    IF Len(q.todelete) >= q.deltotal /\ ~grown
    THEN [st |-> do_item_deref(st, it), q |-> q, rc |-> -1]
    ELSE [st |-> [st EXCEPT !.items[it].exptime = realtime(exptime),
                            !.items[it].deleted = TRUE],
          q  |-> [todelete |-> Append(q.todelete, it),
                  deltotal |-> IF Len(q.todelete) >= q.deltotal
                               THEN q.deltotal * 2 ELSE q.deltotal],
          rc |-> 0]

\* process_delete_command without the item_unlink of an immediate delete
process_delete_command_nounlink(st, cn, q, buf, tokens, grown) ==
    LET key == TokenBytes(buf, tokens[KEY_TOKEN])
        e   == IF Len(tokens) = 4 THEN strtol(CStr(buf, tokens[3].value))
               ELSE [val |-> ZeroL(LongLimbs), erange |-> FALSE]
        g   == do_item_get_notedeleted(st, key)
        d   == do_defer_delete(g.st, q, g.it, e.val, grown)
    IN  IF tokens[KEY_TOKEN].length > KEY_MAX_LENGTH
        THEN [st |-> st, cn |-> out_string(cn, R_BAD_FORMAT), q |-> q]
        ELSE IF e.erange
        THEN [st |-> st, cn |-> out_string(cn, R_BAD_FORMAT), q |-> q]
        ELSE IF g.it # 0
        THEN IF e.val = ZeroL(LongLimbs)
             THEN [st |-> do_item_deref(g.st, g.it),
                   cn |-> out_string(cn, R_DELETED), q |-> q]
             ELSE [st |-> d.st,
                   cn |-> out_string(cn, IF d.rc = 0 THEN R_DELETED ELSE R_OOM),
                   q  |-> d.q]
        ELSE [st |-> g.st, cn |-> out_string(cn, R_NOT_FOUND), q |-> q]

\* static void process_delete_command(conn *c, token_t *tokens, ntokens)
process_delete_command(st, cn, q, buf, tokens, grown) ==
    LET key == TokenBytes(buf, tokens[KEY_TOKEN])
        e   == IF Len(tokens) = 4 THEN strtol(CStr(buf, tokens[3].value))
               ELSE [val |-> ZeroL(LongLimbs), erange |-> FALSE]
        g   == do_item_get_notedeleted(st, key)
        d   == do_defer_delete(g.st, q, g.it, e.val, grown)
    IN  IF tokens[KEY_TOKEN].length > KEY_MAX_LENGTH
        THEN [st |-> st, cn |-> out_string(cn, R_BAD_FORMAT), q |-> q]
        ELSE IF e.erange
        THEN [st |-> st, cn |-> out_string(cn, R_BAD_FORMAT), q |-> q]
        ELSE IF g.it # 0
        THEN IF e.val = ZeroL(LongLimbs)
             THEN [st |-> do_item_deref(do_item_unlink(g.st, g.it), g.it),
                   cn |-> out_string(cn, R_DELETED), q |-> q]
             ELSE [st |-> d.st,
                   cn |-> out_string(cn, IF d.rc = 0 THEN R_DELETED ELSE R_OOM),
                   q  |-> d.q]
        ELSE [st |-> g.st, cn |-> out_string(cn, R_NOT_FOUND), q |-> q]

\* process_delete_command after its item_get has returned it: the unlink
\* and deref of an immediate delete, or the defer_delete, and the reply
delete_after_get(st, cn, q, it, exptime, grown) ==
    IF it # 0
    THEN IF exptime = ZeroL(LongLimbs)
         THEN [st |-> do_item_deref(do_item_unlink(st, it), it),
               cn |-> out_string(cn, R_DELETED), q |-> q]
         ELSE Only({[st |-> d.st,
                     cn |-> out_string(cn, IF d.rc = 0 THEN R_DELETED ELSE R_OOM),
                     q  |-> d.q] :
                       d \in {do_defer_delete(st, q, it, exptime, grown)}})
    ELSE [st |-> st, cn |-> out_string(cn, R_NOT_FOUND), q |-> q]

RECURSIVE RunDeferredKeep(_, _, _)
\* the loop of do_run_deferred_deletes, were every entry kept in the queue
RunDeferredKeep(st, todo, kept) ==
    IF todo = <<>> THEN [st |-> st, todelete |-> kept]
    ELSE LET it == Head(todo)
         IN  IF item_delete_lock_over(st.items[it])
             THEN RunDeferredKeep(do_item_deref(
                                      do_item_unlink([st EXCEPT !.items[it].deleted = FALSE],
                                                     it), it),
                                  Tail(todo), Append(kept, it))
             ELSE RunDeferredKeep(st, Tail(todo), Append(kept, it))

\* do_run_deferred_deletes, were every entry kept in the queue
do_run_deferred_deletes_keep(st, q) == RunDeferredKeep(st, q, <<>>)

\* do_run_deferred_deletes, were no window looked at: every entry goes
do_run_deferred_deletes_all(st, q) ==
    [st |-> RunDeferredKeep([st EXCEPT !.items =
                                [id \in DOMAIN st.items |->
                                    IF id \in {q[i] : i \in DOMAIN q}
                                    THEN [st.items[id] EXCEPT !.exptime = <<0, 0>>]
                                    ELSE st.items[id]]], q, <<>>).st,
     todelete |-> <<>>]

RECURSIVE RunDeferredKey(_, _, _)
\* the loop of do_run_deferred_deletes, were the item to unlink looked up by
\* the key of the queue entry
RunDeferredKey(st, todo, kept) ==
    IF todo = <<>> THEN [st |-> st, todelete |-> kept]
    ELSE LET it == Head(todo)
             k  == assoc_find(st, st.items[it].key)
             s1 == [st EXCEPT !.items[it].deleted = FALSE]
         IN  IF item_delete_lock_over(st.items[it])
             THEN RunDeferredKey(do_item_deref(IF k = 0 THEN s1 ELSE do_item_unlink(s1, k),
                                               it),
                                 Tail(todo), kept)
             ELSE RunDeferredKey(st, Tail(todo), Append(kept, it))

\* do_run_deferred_deletes, were the key of each entry unlinked
do_run_deferred_deletes_key(st, q) == RunDeferredKey(st, q, <<>>)

RECURSIVE RunDeferred(_, _, _)
\* the loop of do_run_deferred_deletes over todelete[i..]
RunDeferred(st, todo, kept) ==
    IF todo = <<>> THEN [st |-> st, todelete |-> kept]
    ELSE LET it == Head(todo)
         IN  IF item_delete_lock_over(st.items[it])
             THEN RunDeferred(do_item_deref(
                                  do_item_unlink([st EXCEPT !.items[it].deleted = FALSE],
                                                 it), it),
                              Tail(todo), kept)
             ELSE RunDeferred(st, Tail(todo), Append(kept, it))

\* void do_run_deferred_deletes(void)
do_run_deferred_deletes(st, q) == RunDeferred(st, q, <<>>)

----------------------------------------------------------------------------
(* flush_all.                                                              *)

\* expired with the clock at now and the flush horizon at horizon
item_expired_at(it, now, horizon) ==
    \/ it.exptime # U32(0) /\ LeU(it.exptime, now)
    \/ LeU(it.time, horizon)

RECURSIVE UnlinkAll(_, _)
UnlinkAll(st, ids) ==
    IF ids = <<>> THEN st ELSE UnlinkAll(do_item_unlink(st, Head(ids)), Tail(ids))

\* item_flush_expired(): lazy, it leaves the expired items to the lookups;
\* not lazy, it unlinks them
item_flush_expired(st, now, horizon, lazy) ==
    IF lazy THEN st
    ELSE UnlinkAll(st, SelectSeq(st.lru, LAMBDA x :
                           ~st.items[x].deleted
                           /\ item_expired_at(st.items[x], now, horizon)))

----------------------------------------------------------------------------
(* Command dispatch.                                                       *)

\* process_command taking a delete line of any length
process_command_long_delete(buf, tokens) ==
    LET ntokens == Len(tokens)
        cmd     == IF ntokens >= 2 THEN CStr(buf, tokens[1].value) ELSE <<>>
    IN  IF ntokens >= 3 /\ cmd \in {W_get, W_bget} THEN "get"
        ELSE IF ntokens = 3 /\ cmd = W_metaget THEN "metaget"
        ELSE IF ntokens = 6 /\ cmd = W_add THEN NREAD_ADD
        ELSE IF ntokens = 6 /\ cmd = W_set THEN NREAD_SET
        ELSE IF ntokens = 6 /\ cmd = W_replace THEN NREAD_REPLACE
        ELSE IF ntokens = 4 /\ cmd = W_incr THEN "incr"
        ELSE IF ntokens = 4 /\ cmd = W_decr THEN "decr"
        ELSE IF ntokens >= 3 /\ cmd = W_delete THEN "delete"
        ELSE IF ntokens = 3 /\ cmd \in {W_own, W_disown, W_bg} THEN "managed"
        ELSE IF ntokens >= 2 /\ cmd = W_stats THEN "stats"
        ELSE IF ntokens >= 2 /\ ntokens <= 3 /\ cmd = W_flush_all THEN "flush_all"
        ELSE IF ntokens = 2 /\ cmd = W_version THEN "version"
        ELSE IF ntokens = 2 /\ cmd = W_quit THEN "quit"
        ELSE IF ntokens = 3 /\ cmd = W_flush_regex THEN "flush_regex"
        ELSE IF ntokens = 3 /\ cmd = W_verbosity THEN "verbosity"
        ELSE "ERROR"

\* the branch of process_command that a tokenized line takes
process_command(buf, tokens) ==
    LET ntokens == Len(tokens)
        cmd     == IF ntokens >= 2 THEN CStr(buf, tokens[1].value) ELSE <<>>
    IN  IF ntokens >= 3 /\ cmd \in {W_get, W_bget} THEN "get"
        ELSE IF ntokens = 3 /\ cmd = W_metaget THEN "metaget"
        ELSE IF ntokens = 6 /\ cmd = W_add THEN NREAD_ADD
        ELSE IF ntokens = 6 /\ cmd = W_set THEN NREAD_SET
        ELSE IF ntokens = 6 /\ cmd = W_replace THEN NREAD_REPLACE
        ELSE IF ntokens = 4 /\ cmd = W_incr THEN "incr"
        ELSE IF ntokens = 4 /\ cmd = W_decr THEN "decr"
        ELSE IF ntokens >= 3 /\ ntokens <= 4 /\ cmd = W_delete THEN "delete"
        ELSE IF ntokens = 3 /\ cmd \in {W_own, W_disown, W_bg} THEN "managed"
        ELSE IF ntokens >= 2 /\ cmd = W_stats THEN "stats"
        ELSE IF ntokens >= 2 /\ ntokens <= 3 /\ cmd = W_flush_all THEN "flush_all"
        ELSE IF ntokens = 2 /\ cmd = W_version THEN "version"
        ELSE IF ntokens = 2 /\ cmd = W_quit THEN "quit"
        ELSE IF ntokens = 3 /\ cmd = W_flush_regex THEN "flush_regex"
        ELSE IF ntokens = 3 /\ cmd = W_verbosity THEN "verbosity"
        ELSE "ERROR"

\* the line as try_read_command hands it over: NUL in place of the line end
Tokenized(line) == tokenize_command(line \o <<NUL>>, 1, MAX_TOKENS)

Branch(line) == process_command(Tokenized(line).buf, Tokenized(line).tokens)

----------------------------------------------------------------------------
(* History variables.                                                      *)

NoView ==
    [it |-> 0, locked |-> FALSE, live |-> FALSE, flags |-> U32(0), data |-> <<>>,
     head |-> FALSE]

\* what a client sees of a key: the linked item of that key, whether it is
\* delete-locked, whether it is live, whether it is at the head of the LRU
KeyView(st, key) ==
    LET id == assoc_find(st, key)
        it == st.items[id]
    IN  IF id = 0
        THEN NoView
        ELSE [it |-> id, locked |-> it.deleted,
              live |-> ~it.deleted /\ ~item_expired(it),
              flags |-> it.flags, data |-> it.data, head |-> Head(st.lru) = id]

NoWatch ==
    [ok |-> FALSE, key |-> <<>>, flags |-> U32(0), data |-> <<>>, it |-> 0,
     exptime |-> U32(0), time |-> U32(0), overlock |-> FALSE]

NoHist ==
    [op |-> "", line |-> <<>>, key |-> <<>>, flags |-> U32(0), data |-> <<>>,
     pre |-> NoView, hits |-> <<>>, w |-> NoWatch, wlive |-> FALSE, held |-> 0,
     nomem |-> FALSE]

\* the item a watch follows has expired or is behind the flush horizon
WatchExpired(w) ==
    \/ w.exptime # U32(0) /\ LeU(w.exptime, current_time)
    \/ LeU(w.time, oldest_live)

\* the watches after connection c has processed a command that names the
\* keys in names; mine is the watch that c leaves
WatchAfter(c, names, mine) ==
    [d \in Conns |->
        IF d = c THEN mine
        ELSE IF watch[d].ok /\ watch[d].key \in names THEN NoWatch
        ELSE watch[d]]

\* the VALUE block of one hit
ValueBlock(key, flags, data) ==
    S_VALUE \o key \o <<" ">> \o Utoa(flags) \o <<" ">> \o Utoa(U32(Len(data)))
            \o CRLF \o data \o CRLF

RECURSIVE ValueBlocks(_)
ValueBlocks(hits) ==
    IF hits = <<>> THEN <<>>
    ELSE ValueBlock(Head(hits).key, Head(hits).flags, Head(hits).data)
             \o ValueBlocks(Tail(hits))

\* the bytes a connection in state cn is about to write
ReplyOf(cn, its) ==
    IF cn.state = "conn_write" THEN cn.wbuf
    ELSE IF cn.state = "conn_mwrite" THEN IovBytes(cn.iov, cn, its)
    ELSE <<>>

Reply(c) == ReplyOf(conn[c], items)

ReplyNext(c) == ReplyOf(conn'[c], items')

StoreNext == [items |-> items', hash |-> hash', lru |-> lru']

\* what a get of the key returns: the flags and value of the live item
Sight(st, key) ==
    IF KeyView(st, key).live
    THEN [hit |-> TRUE, flags |-> KeyView(st, key).flags, data |-> KeyView(st, key).data]
    ELSE [hit |-> FALSE, flags |-> U32(0), data |-> <<>>]

RECURSIVE KeysOf(_, _)
\* the keys of the get line in buf, from position p on
KeysOf(buf, p) ==
    IF p > Len(buf) \/ buf[p] = NUL THEN <<>>
    ELSE IF buf[p] = " " THEN KeysOf(buf, p + 1)
    ELSE LET n == CHOOSE k \in 1..Len(buf) : buf[p + k] \in {" ", NUL}
                      /\ \A j \in 1..(k - 1) : buf[p + j] \notin {" ", NUL}
         IN  <<SubSeq(buf, p, p + n - 1)>> \o KeysOf(buf, p + n)

\* the keys a get line names
GetKeys(line) == Tail(KeysOf(line \o <<NUL>>, 1))

RECURSIVE HitsOf(_, _)
\* the live items of the keys, in key order
HitsOf(st, keys) ==
    IF keys = <<>> THEN <<>>
    ELSE LET v == KeyView(st, Head(keys))
         IN  (IF v.live THEN <<[key |-> Head(keys), flags |-> v.flags, data |-> v.data]>>
              ELSE <<>>) \o HitsOf(st, Tail(keys))

----------------------------------------------------------------------------
(* The clients: the lines and values they send.                            *)

RECURSIVE Join(_)
\* the words of a line with one space between them
Join(ws) == IF Len(ws) = 1 THEN ws[1] ELSE ws[1] \o <<" ">> \o Join(Tail(ws))

K_a == <<"a">>

K_b == <<"b">>

\* an update line for each command, key and <<flags, exptime, length>>
UpdateLines(ops, keys, args) ==
    {Join(<<op, k>> \o a) : op \in ops, k \in keys, a \in args}

\* the values of each length that the clients send
NoValues == [n \in 0..ITEM_MAX_NBYTES |-> {}]

Terminators == {CRLF, <<"\n", "\r">>}

\* the clients of the store commands
StoreLines ==
    {Join(<<W_get, K_a>>), Join(<<W_get, K_b>>), Join(<<W_delete, K_a>>),
     Join(<<W_delete, K_a, <<"0">> >>), Join(<<W_delete, K_a, <<"2">> >>),
     Join(<<W_set, K_a, <<"0">>, <<"0">>, <<"9", "9">> >>), <<"x">>}
        \cup UpdateLines({W_set}, {K_b}, {<<<<"0">>, <<"0">>, <<"1">> >>})
        \cup UpdateLines({W_set, W_add, W_replace}, {K_a},
                         {<<<<"0">>, <<"0">>, <<"1">> >>,
                          <<<<"5">>, <<"0">>, <<"2">> >>,
                          <<<<"5">>, <<"-", "1">>, <<"2">> >>})

StoreValues == [NoValues EXCEPT ![1] = {<<"\n">>}, ![2] = {CRLF}]

\* the clients of the delete window
WindowLines ==
    {Join(<<W_get, K_a>>), Join(<<W_delete, K_a>>),
     Join(<<W_delete, K_a, <<"1">> >>)}
        \cup UpdateLines({W_set}, {K_a}, {<<<<"0">>, <<"0">>, <<"1">> >>,
                                          <<<<"5">>, <<"-", "1">>, <<"2">> >>})
        \cup UpdateLines({W_add, W_replace}, {K_a}, {<<<<"0">>, <<"0">>, <<"1">> >>})

\* the clients of incr and decr
ArithLines ==
    {Join(<<W_get, K_a>>)}
        \cup UpdateLines({W_set}, {K_a}, {<<<<"0">>, <<"0">>, <<"1">> >>,
                                          <<<<"7">>, <<"0">>, <<"2">> >>})
        \cup {Join(<<op, k, d>>) :
                 op \in {W_incr, W_decr}, k \in {K_a, K_b},
                 d \in {<<"1">>, <<"7">>,
                        <<"4", "2", "9", "4", "9", "6", "7", "2", "9", "5">>,
                        <<"4", "2", "9", "4", "9", "6", "7", "2", "9", "6">>,
                        <<"1", "8", "4", "4", "6", "7", "4", "4", "0", "7", "3",
                          "7", "0", "9", "5", "5", "1", "6", "1", "6">>}}

ArithValues ==
    [NoValues EXCEPT ![1] = {<<"5">>, <<"9">>}, ![2] = {<<"1", "0">>}]

K_c == <<"c">>

\* the clients of get: one key, two keys, six keys (more than one pass of
\* the tokenizer holds) of which two can hit, three keys that can all hit
GetLines ==
    {Join(<<W_get, K_a>>), Join(<<W_get, K_c, K_a>>), Join(<<W_get, K_a, K_b>>),
     Join(<<W_get, K_c, K_c, K_c, K_a, K_c, K_b>>),
     Join(<<W_get, K_a, K_b, K_a>>)}
        \cup UpdateLines({W_set}, {K_a}, {<<<<"0">>, <<"0">>, <<"1">> >>})
        \cup UpdateLines({W_set}, {K_b}, {<<<<"5">>, <<"0">>, <<"2">> >>})

\* the clients of flush_all
FlushLines ==
    {Join(<<W_get, K_a>>), W_flush_all}
        \cup UpdateLines({W_set}, {K_a}, {<<<<"0">>, <<"0">>, <<"1">> >>,
                                          <<<<"5">>, <<"1">>, <<"2">> >>})

\* the clients of the protocol errors: an unknown word, the empty line,
\* known commands with too few or too many words, and good lines
ErrorLines ==
    {<<"x">>, <<>>, W_set, W_get, W_delete,
     Join(<<W_set, K_a, <<"0">>, <<"0">> >>),
     Join(<<W_incr, K_a>>),
     Join(<<W_delete, K_a, <<"0">>, <<"0">> >>),
     Join(<<W_flush_all, <<"0">>, <<"0">> >>),
     Join(<<W_get, K_a>>), Join(<<W_get, K_b>>), Join(<<W_delete, K_a>>)}
        \cup UpdateLines({W_set}, {K_a, K_b}, {<<<<"0">>, <<"0">>, <<"1">> >>})

\* the clients on two worker threads: every store command on one key
ThreadLines ==
    {Join(<<W_delete, K_a>>), Join(<<W_delete, K_a, <<"1">> >>),
     Join(<<W_incr, K_a, <<"1">> >>), Join(<<W_decr, K_a, <<"1">> >>),
     Join(<<W_set, K_a, <<"0">>, <<"0">>, <<"1">> >>),
     Join(<<W_add, K_a, <<"1">>, <<"0">>, <<"1">> >>),
     Join(<<W_replace, K_a, <<"2">>, <<"0">>, <<"1">> >>)}

ThreadValues == [NoValues EXCEPT ![1] = {<<"5">>}]

\* the clients that share items: get, set, incr, both deletes and flush_all
\* on one key
RefLines ==
    {Join(<<W_get, K_a>>), Join(<<W_delete, K_a>>), Join(<<W_delete, K_a, <<"1">> >>),
     Join(<<W_incr, K_a, <<"1">> >>), Join(<<W_set, K_a, <<"0">>, <<"0">>, <<"1">> >>),
     W_flush_all}

\* the clients of the index: every store command on one key, a set on
\* another, and flush_all
IndexLines ==
    ThreadLines \cup {W_flush_all}
        \cup UpdateLines({W_set}, {K_b}, {<<<<"0">>, <<"0">>, <<"1">> >>})

SetA1 == Join(<<W_set, K_a, <<"0">>, <<"0">>, <<"1">> >>) \o CRLF

SetA2 == Join(<<W_set, K_a, <<"3">>, <<"0">>, <<"2">> >>) \o CRLF

GetA == Join(<<W_get, K_a>>) \o CRLF

\* what a client sends on a socket: a set with its value and a get; a set
\* whose value is a byte too long; a good set and then a set with two wrong
\* bytes after the value; a set that stops in the middle of its value
NreadStreams ==
    {SetA1 \o <<"5">> \o CRLF \o GetA,
     SetA1 \o <<"5", "5">> \o CRLF \o GetA,
     SetA1 \o <<"5">> \o CRLF \o SetA2 \o <<"7", "7", "\n", "\r">> \o GetA,
     SetA2 \o <<"7">> \o CRLF}

DeleteA1 == Join(<<W_delete, K_a, <<"1">> >>) \o CRLF

\* a set of 12 bytes, more than an item holds
SetA12 == Join(<<W_set, K_a, <<"0">>, <<"0">>, <<"1", "2">> >>) \o CRLF

\* a set of INT_MAX bytes
SetAIntMax ==
    Join(<<W_set, K_a, <<"0">>, <<"0">>,
           <<"2", "1", "4", "7", "4", "8", "3", "6", "4", "7">> >>) \o CRLF

\* what a client sends on a socket: a set too large whose value holds a get
\* line, and a get; the same cut off inside the value; three sets each
\* hidden by a delete with a window, so that no item can be had for the
\* fourth set, and a get; a set of INT_MAX bytes and a get
SwallowStreams ==
    {SetA12 \o GetA \o <<"1", "2", "3", "4", "5">> \o CRLF \o GetA,
     SetA12 \o GetA,
     SetA1 \o <<"5">> \o CRLF \o DeleteA1 \o SetA1 \o <<"5">> \o CRLF \o DeleteA1
         \o SetA1 \o <<"5">> \o CRLF \o DeleteA1 \o SetA1 \o <<"5">> \o CRLF \o GetA,
     SetAIntMax \o GetA}

\* what the client of a get sends: a set and a get of the key twice; a set
\* and a get of the key
MwriteStreams ==
    {SetA1 \o <<"5">> \o CRLF \o Join(<<W_get, K_a, K_a>>) \o CRLF,
     SetA1 \o <<"5">> \o CRLF \o GetA}

\* what a client sends that closes: a set cut off before or inside its
\* value, a second set cut off inside its value, a set and a get of the key
\* twice
CloseStreams ==
    {SetA1, SetA2 \o <<"5">>, SetA1 \o <<"5">> \o CRLF \o SetA2 \o <<"6">>,
     SetA1 \o <<"5">> \o CRLF \o Join(<<W_get, K_a, K_a>>) \o CRLF}

\* what a client pipelines: three gets; a line that is no command and a get
PipelineStreams ==
    {GetA \o GetA \o GetA, <<"x">> \o CRLF \o GetA}

\* what a client that was accepted sends before it closes
AcceptStreams == {<<>>, GetA, <<"x">> \o CRLF \o GetA}

\* the lines of the requests on the UDP socket
UdpLines ==
    {Join(<<W_get, K_a>>), Join(<<W_delete, K_a>>)}
        \cup UpdateLines({W_set}, {K_a}, {<<<<"0">>, <<"0">>, <<"1">> >>})

\* a datagram with the header fields request ID, sequence number, number of
\* datagrams, reserved
Datagram(id, seq, total, payload) ==
    [hdr |-> <<id \div 256, id % 256, seq \div 256, seq % 256,
               total \div 256, total % 256, 0, 0>>,
     payload |-> payload]

\* requests of one datagram that set, delete and get; requests that say they
\* are one datagram of 2, of 0, of 257 and of 256; a header of 2 alone
UdpDatagrams ==
    {Datagram(7, 0, 1, Join(<<W_set, K_a, <<"0">>, <<"0">>, <<"1">> >>) \o CRLF
                           \o <<"5">> \o CRLF),
     Datagram(258, 0, 1, Join(<<W_delete, K_a>>) \o CRLF),
     Datagram(6, 0, 1, Join(<<W_get, K_a>>) \o CRLF),
     Datagram(259, 0, 2, Join(<<W_delete, K_a>>) \o CRLF),
     Datagram(9, 1, 2, Join(<<W_set, K_a, <<"0">>, <<"0">>, <<"1">> >>) \o CRLF
                           \o <<"7">> \o CRLF),
     Datagram(3, 0, 0, Join(<<W_delete, K_a>>) \o CRLF),
     Datagram(4, 0, 257, Join(<<W_delete, K_a>>) \o CRLF),
     Datagram(5, 0, 256, Join(<<W_delete, K_a>>) \o CRLF),
     Datagram(8, 0, 2, <<>>)}

\* the clients of the delete queue: sets of two keys, deletes with a
\* window of one and of two seconds, an add, a get
SweepLines ==
    {Join(<<W_get, K_a>>), Join(<<W_delete, K_a, <<"1">> >>),
     Join(<<W_delete, K_b, <<"2">> >>)}
        \cup UpdateLines({W_set}, {K_a, K_b}, {<<<<"0">>, <<"0">>, <<"1">> >>})
        \cup UpdateLines({W_add}, {K_a}, {<<<<"0">>, <<"0">>, <<"1">> >>})

\* the clients that run out of memory: a get with two hits, an incr and a
\* delete with a window
NoMemLines ==
    {Join(<<W_get, K_a, K_a>>), Join(<<W_get, K_a>>),
     Join(<<W_incr, K_a, <<"1">> >>), Join(<<W_delete, K_a, <<"1">> >>)}
        \cup UpdateLines({W_set}, {K_a}, {<<<<"0">>, <<"0">>, <<"1">> >>})

\* the clients of a get that is cut short: three hits, for which the
\* scatter list has no room, and a delete from another connection
LeakLines ==
    {Join(<<W_get, K_a, K_a, K_a>>), Join(<<W_get, K_a>>), Join(<<W_delete, K_a>>)}
        \cup UpdateLines({W_set}, {K_a}, {<<<<"0">>, <<"0">>, <<"1">> >>})

\* the clients of metaget: the metadata and the value of one key, a set
\* and a delete of it
MetaLines ==
    {Join(<<W_metaget, K_a>>), Join(<<W_get, K_a>>), Join(<<W_delete, K_a>>)}
        \cup UpdateLines({W_set}, {K_a}, {<<<<"0">>, <<"0">>, <<"1">> >>})

\* the clients of the mutex: sets of two keys, a delete at once and deletes
\* with a window
LockLines ==
    {Join(<<W_delete, K_a>>), Join(<<W_delete, K_a, <<"1">> >>),
     Join(<<W_delete, K_b, <<"2">> >>)}
        \cup UpdateLines({W_set}, {K_a, K_b}, {<<<<"0">>, <<"0">>, <<"1">> >>})

\* the clients of flush_all with a time: the times 0 and 1, a set and a get
FlushTimeLines ==
    {Join(<<W_get, K_a>>), Join(<<W_flush_all, <<"0">> >>),
     Join(<<W_flush_all, <<"1">> >>)}
        \cup UpdateLines({W_set}, {K_a}, {<<<<"0">>, <<"0">>, <<"1">> >>})

\* the requests of one datagram whose response fails to go out
UdpErrorDatagrams ==
    {Datagram(6, 0, 1, Join(<<W_get, K_a>>) \o CRLF),
     Datagram(258, 0, 1, Join(<<W_delete, K_a>>) \o CRLF)}

\* every line a client of some specification sends
AllLines ==
    StoreLines \cup WindowLines \cup ArithLines \cup GetLines \cup FlushLines
        \cup ErrorLines \cup ThreadLines \cup UdpLines \cup RefLines \cup IndexLines
        \cup SweepLines \cup NoMemLines \cup LeakLines \cup MetaLines
        \cup LockLines \cup FlushTimeLines

\* each line as process_command tokenizes and dispatches it
Parsed ==
    [line \in AllLines |->
        [buf |-> Tokenized(line).buf, tokens |-> Tokenized(line).tokens,
         branch |-> Branch(line)]]


\* a line that try_read_command finds in the read buffer
ParsedLine(line) ==
    IF line \in AllLines THEN Parsed[line]
    ELSE [buf |-> Tokenized(line).buf, tokens |-> Tokenized(line).tokens,
          branch |-> Branch(line)]

----------------------------------------------------------------------------
(* The steps of the program.                                               *)

\* the connection waits for a command
Idle(c) == conn[c].state = "conn_read" /\ conn[c].get.pos = 0 /\ ~conn[c].del.on

StoreAfter(st) == items' = st.items /\ hash' = st.hash /\ lru' = st.lru

Range(f) == {f[i] : i \in DOMAIN f}

Queue == [todelete |-> todelete, deltotal |-> deltotal]

\* try_read_command hands a get line to process_command
CmdGet(c, L) ==
    /\ Idle(c)
    /\ \E line \in L :
        LET tk == Parsed[line]
            r  == process_get_command(Store, conn[c], tk.buf, tk.tokens)
        IN  /\ tk.branch = "get"
            /\ StoreAfter(r.st)
            /\ conn' = [conn EXCEPT ![c] = r.cn]
            /\ hist' = [hist EXCEPT ![c] =
                           [NoHist EXCEPT !.op = "get", !.line = line,
                                          !.hits = HitsOf(Store, GetKeys(line)),
                                          !.w = watch[c],
                                          !.wlive = ~WatchExpired(watch[c])]]
            /\ watch' = WatchAfter(c, Range(GetKeys(line)), NoWatch)
    /\ UNCHANGED <<sock, udp, oplog, started, time0, current_time, oldest_live, todelete, deltotal, rt,
                   arith_cmds>>

\* try_read_command hands a metaget line to process_command
CmdMetaget(c, L) ==
    /\ Idle(c)
    /\ \E line \in L :
        LET tk == Parsed[line]
            r  == process_metaget_command(Store, conn[c], tk.buf, tk.tokens)
        IN  /\ tk.branch = "metaget"
            /\ StoreAfter(r.st)
            /\ conn' = [conn EXCEPT ![c] = r.cn]
            /\ hist' = [hist EXCEPT ![c] =
                           [NoHist EXCEPT !.op = "metaget", !.line = line,
                                          !.hits = HitsOf(Store, GetKeys(line))]]
    /\ UNCHANGED <<sock, udp, oplog, started, time0, current_time, oldest_live, todelete,
                   deltotal, watch, rt, arith_cmds>>

\* a get line whose list of items to transmit is full when pool_realloc has
\* no memory
CmdGetNoMem(c, L) ==
    /\ Idle(c)
    /\ \E line \in L :
        LET tk == Parsed[line]
            r  == process_get_command_pool(Store, conn[c], tk.buf, tk.tokens, FALSE)
        IN  /\ tk.branch = "get"
            /\ r.cn.get.pos # 0
            /\ Len(r.cn.get.pend) >= r.cn.isize
            /\ StoreAfter(r.st)
            /\ conn' = [conn EXCEPT ![c] = r.cn]
            /\ hist' = [hist EXCEPT ![c] =
                           [NoHist EXCEPT !.op = "get", !.line = line,
                                          !.hits = HitsOf(Store, GetKeys(line)),
                                          !.w = watch[c],
                                          !.wlive = ~WatchExpired(watch[c]),
                                          !.nomem = TRUE]]
            /\ watch' = WatchAfter(c, Range(GetKeys(line)), NoWatch)
    /\ UNCHANGED <<sock, udp, oplog, started, time0, current_time, oldest_live, todelete, deltotal, rt,
                   arith_cmds>>

\* the round of the outer loop when pool_realloc has no memory again
GetAgainNoMem(c) ==
    /\ conn[c].state = "conn_read"
    /\ conn[c].get.pos # 0
    /\ Len(conn[c].get.pend) >= conn[c].isize
    /\ \A id \in ItemIds : items[id].refcount < MaxRefcount
    /\ LET r == process_get_again_pool(Store, conn[c], FALSE)
       IN  /\ StoreAfter(r.st)
           /\ conn' = [conn EXCEPT ![c] = r.cn]
    /\ UNCHANGED <<sock, udp, oplog, started, time0, current_time, oldest_live, todelete, deltotal,
                   hist, watch, rt,
                   arith_cmds>>

\* a get handler that broke out of its inner loop goes round its outer loop
GetAgain(c) ==
    /\ conn[c].state = "conn_read"
    /\ conn[c].get.pos # 0
    /\ \A id \in ItemIds : items[id].refcount < MaxRefcount
    /\ LET r == process_get_again(Store, conn[c])
       IN  /\ StoreAfter(r.st)
           /\ conn' = [conn EXCEPT ![c] = r.cn]
    /\ UNCHANGED <<sock, udp, oplog, started, time0, current_time, oldest_live, todelete, deltotal,
                   hist, watch, rt,
                   arith_cmds>>

\* a set, add or replace line
CmdUpdate(c, L) ==
    /\ Idle(c)
    /\ \E line \in L :
        LET tk   == Parsed[line]
            comm == tk.branch
            r    == process_update_command(Store, conn[c], tk.buf, tk.tokens, comm)
            key  == TokenBytes(tk.buf, tk.tokens[KEY_TOKEN])
        IN  /\ comm \in {NREAD_ADD, NREAD_SET, NREAD_REPLACE}
            /\ StoreAfter(r.st)
            /\ conn' = [conn EXCEPT ![c] = r.cn]
            /\ hist' = [hist EXCEPT ![c] =
                           [NoHist EXCEPT !.op = "update", !.line = line, !.key = key]]
            /\ watch' = WatchAfter(c, {key}, NoWatch)
    /\ UNCHANGED <<sock, udp, oplog, started, time0, current_time, oldest_live, todelete, deltotal, rt,
                   arith_cmds>>

\* conn_nread has read the value and the two bytes after it: complete_nread
Nread(c, P, T) ==
    /\ conn[c].state = "conn_nread"
    /\ \E data \in P[items[conn[c].item].cap], crlf \in T :
        LET it  == conn[c].item
            key == conn[c].update_key
            r   == complete_nread(Store, conn[c], data, crlf)
            stored == r.cn.wbuf = R_STORED \o CRLF
            pre == KeyView(Store, key)
        IN  /\ StoreAfter(r.st)
            /\ conn' = [conn EXCEPT ![c] = r.cn]
            /\ hist' = [hist EXCEPT ![c] =
                           [NoHist EXCEPT !.op = conn[c].item_comm, !.line = crlf,
                                          !.key = key, !.flags = items[it].flags,
                                          !.data = data, !.pre = pre]]
            /\ watch' = WatchAfter(c, {key},
                            IF stored /\ conn[c].item_comm = NREAD_SET
                            THEN [ok |-> TRUE, key |-> key, flags |-> items[it].flags,
                                  data |-> data, it |-> it,
                                  exptime |-> items[it].exptime,
                                  time |-> current_time, overlock |-> pre.locked]
                            ELSE NoWatch)
    /\ UNCHANGED <<sock, udp, oplog, started, time0, current_time, oldest_live, todelete, deltotal, rt,
                   arith_cmds>>

\* an incr or decr line
CmdArith(c, L) ==
    /\ Idle(c)
    /\ arith_cmds < MaxArith
    /\ \E line \in L :
        LET tk  == Parsed[line]
            br  == tk.branch
            r   == process_arithmetic_command(Store, conn[c], tk.buf, tk.tokens,
                                              br = "incr")
            key == TokenBytes(tk.buf, tk.tokens[KEY_TOKEN])
        IN  /\ br \in {"incr", "decr"}
            /\ StoreAfter(r.st)
            /\ conn' = [conn EXCEPT ![c] = r.cn]
            /\ hist' = [hist EXCEPT ![c] =
                           [NoHist EXCEPT !.op = br, !.line = line, !.key = key,
                                          !.data = CStr(tk.buf, tk.tokens[3].value),
                                          !.pre = KeyView(Store, key),
                                          !.nomem = r.cn.wbuf = R_OOM \o CRLF]]
            /\ watch' = WatchAfter(c, {key}, NoWatch)
            /\ arith_cmds' = IF r.cn.wbuf = R_BAD_FORMAT \o CRLF THEN arith_cmds
                              ELSE arith_cmds + 1
    /\ UNCHANGED <<sock, udp, oplog, started, time0, current_time, oldest_live, todelete, deltotal, rt>>

\* a delete line
CmdDelete(c, L) ==
    /\ Idle(c)
    /\ \E line \in L,
          grown \in IF Len(todelete) >= deltotal THEN BOOLEAN ELSE {TRUE} :
        LET tk  == Parsed[line]
            r   == process_delete_command(Store, conn[c], Queue, tk.buf, tk.tokens, grown)
            key == TokenBytes(tk.buf, tk.tokens[KEY_TOKEN])
        IN  /\ tk.branch = "delete"
            /\ StoreAfter(r.st)
            /\ conn' = [conn EXCEPT ![c] = r.cn]
            /\ todelete' = r.q.todelete
            /\ deltotal' = r.q.deltotal
            /\ hist' = [hist EXCEPT ![c] =
                           [NoHist EXCEPT !.op = "delete", !.line = line, !.key = key,
                                          !.data = IF Len(tk.tokens) = 4
                                                   THEN CStr(tk.buf, tk.tokens[3].value)
                                                   ELSE <<>>,
                                          !.pre = KeyView(Store, key),
                                          !.nomem = ~grown]]
            /\ watch' = WatchAfter(c, {key}, NoWatch)
    /\ UNCHANGED <<sock, udp, oplog, started, time0, current_time, oldest_live, rt,
                   arith_cmds>>

\* a delete line on a worker thread, as far as its item_get: the lookup
\* runs under the cache lock, which the handler then gives up
DeleteGet(c, L) ==
    /\ Idle(c)
    /\ \E line \in L :
        LET tk == Parsed[line]
            g  == do_item_get_notedeleted(Store, TokenBytes(tk.buf, tk.tokens[KEY_TOKEN]))
        IN  /\ tk.branch = "delete"
            /\ tk.tokens[KEY_TOKEN].length <= KEY_MAX_LENGTH
            /\ Len(tk.tokens) = 4 => ~strtol(CStr(tk.buf, tk.tokens[3].value)).erange
            /\ StoreAfter(g.st)
            /\ conn' = [conn EXCEPT ![c].del = [on |-> TRUE, line |-> line, it |-> g.it]]
    /\ UNCHANGED <<sock, udp, oplog, started, time0, current_time, oldest_live, todelete, deltotal,
                   hist, watch, rt, arith_cmds>>

\* the rest of that delete: item_unlink and item_deref, or defer_delete,
\* each under the cache lock, and the reply
DeleteDone(c) ==
    /\ conn[c].del.on
    /\ \E grown \in IF Len(todelete) >= deltotal THEN BOOLEAN ELSE {TRUE} :
        LET tk  == Parsed[conn[c].del.line]
            key == TokenBytes(tk.buf, tk.tokens[KEY_TOKEN])
            e   == IF Len(tk.tokens) = 4 THEN strtol(CStr(tk.buf, tk.tokens[3].value)).val
                   ELSE ZeroL(LongLimbs)
            r   == delete_after_get(Store, [conn[c] EXCEPT !.del = NoDel], Queue,
                                    conn[c].del.it, e, grown)
        IN  /\ StoreAfter(r.st)
            /\ conn' = [conn EXCEPT ![c] = r.cn]
            /\ todelete' = r.q.todelete
            /\ deltotal' = r.q.deltotal
            /\ hist' = [hist EXCEPT ![c] =
                           [NoHist EXCEPT !.op = "delete", !.line = conn[c].del.line,
                                          !.key = key,
                                          !.data = IF Len(tk.tokens) = 4
                                                   THEN CStr(tk.buf, tk.tokens[3].value)
                                                   ELSE <<>>,
                                          !.pre = KeyView(Store, key)]]
            /\ watch' = WatchAfter(c, {key}, NoWatch)
    /\ UNCHANGED <<sock, udp, oplog, started, time0, current_time, oldest_live, rt, arith_cmds>>

\* a flush_all line: the branch of process_command
CmdFlushAll(c, L) ==
    /\ Idle(c)
    /\ \E line \in L, lazy \in BOOLEAN :
        LET tk  == Parsed[line]
            now == set_current_time
            e   == strtol(CStr(tk.buf, tk.tokens[2].value))
            bad == Len(tk.tokens) # 2 /\ e.erange
            ol  == IF Len(tk.tokens) = 2 THEN SubL(now, U32(1))
                   ELSE SubL(realtime_at(e.val, now), U32(1))
            st  == item_flush_expired(Store, now, ol, lazy)
        IN  /\ tk.branch = "flush_all"
            /\ current_time' = now
            /\ oldest_live' = IF bad THEN oldest_live ELSE ol
            /\ IF bad THEN UNCHANGED <<items, hash, lru>>
               ELSE /\ hash' = st.hash
                    /\ lru' = st.lru
                    /\ items' = [id \in ItemIds |->
                                    IF Len(tk.tokens) = 2 /\ items[id].linked
                                    THEN [st.items[id] EXCEPT !.flushed = st.items[id].used]
                                    ELSE st.items[id]]
            /\ conn' = [conn EXCEPT ![c] =
                           out_string(conn[c], IF bad THEN R_BAD_FORMAT ELSE R_OK)]
            /\ hist' = [hist EXCEPT ![c] =
                           [NoHist EXCEPT !.op = "flush_all", !.line = line]]
            /\ watch' = WatchAfter(c, {}, NoWatch)
    /\ UNCHANGED <<sock, udp, oplog, started, time0, todelete, deltotal, rt,
                   arith_cmds>>

\* a line that no branch of process_command takes
CmdError(c, L) ==
    /\ Idle(c)
    /\ \E line \in L :
        /\ Parsed[line].branch = "ERROR"
        /\ conn' = [conn EXCEPT ![c] = out_string(conn[c], R_ERROR)]
        /\ hist' = [hist EXCEPT ![c] = [NoHist EXCEPT !.op = "ERROR", !.line = line]]
        /\ watch' = WatchAfter(c, {}, NoWatch)
    /\ UNCHANGED <<sock, udp, oplog, started, time0, current_time, oldest_live, items, hash, lru,
                   todelete, deltotal, rt,
                   arith_cmds>>

RECURSIVE DerefAll(_, _)
DerefAll(st, ids) ==
    IF ids = <<>> THEN st ELSE DerefAll(do_item_deref(st, Head(ids)), Tail(ids))

\* conn_write and conn_mwrite of drive_machine, transmit writing everything
Written(c) ==
    /\ conn[c].state \in {"conn_write", "conn_mwrite"}
    /\ IF conn[c].state = "conn_mwrite"
       THEN /\ StoreAfter(DerefAll(Store, conn[c].ilist))
            /\ conn' = [conn EXCEPT ![c] =
                           [conn_set_state([conn[c] EXCEPT !.ilist = <<>>], "conn_read")
                               EXCEPT !.wbuf = <<>>]]
       ELSE /\ UNCHANGED <<items, hash, lru>>
            /\ conn' = [conn EXCEPT ![c] =
                           [conn_set_state(conn[c], conn[c].write_and_go)
                               EXCEPT !.wbuf = <<>>]]
    /\ hist' = [hist EXCEPT ![c] = NoHist]
    /\ UNCHANGED <<sock, udp, started, time0, current_time, oldest_live, todelete,
                   deltotal, watch, rt, arith_cmds>>

Transmit(c) == Written(c) /\ UNCHANGED oplog

\* the reply goes out and the history records the command with its reply
Respond(c) ==
    /\ Written(c)
    /\ oplog' = Append(oplog, [op |-> hist[c].op, line |-> hist[c].line,
                               key |-> hist[c].key, flags |-> hist[c].flags,
                               data |-> hist[c].data, reply |-> Reply(c)])

\* conn_swallow of drive_machine, with the bytes to swallow all there
Swallow(c) ==
    /\ conn[c].state = "conn_swallow"
    /\ conn' = [conn EXCEPT ![c] = conn_set_state([conn[c] EXCEPT !.sbytes = 0],
                                                  "conn_read")]
    /\ UNCHANGED <<sock, udp, oplog, started, time0, current_time, oldest_live, items, hash, lru,
                   todelete, deltotal, hist, watch, rt,
                   arith_cmds>>

\* item_setup_receive: the value and the two bytes after it are to be read
setup_receive(st, cn) ==
    IF cn.state = "conn_nread"
    THEN [cn EXCEPT !.rtodo = st.items[cn.item].cap + 2, !.ritem = <<>>]
    ELSE cn

\* process_command on the line tk of a get, set, add, replace or delete, or
\* of no command
run_command(st, cn, q, tk, grown) ==
    IF tk.branch = "get"
    THEN Only({[st |-> r.st, cn |-> r.cn, q |-> q] :
                  r \in {process_get_command(st, cn, tk.buf, tk.tokens)}})
    ELSE IF tk.branch \in {NREAD_ADD, NREAD_SET, NREAD_REPLACE}
    THEN Only({[st |-> r.st, cn |-> setup_receive(r.st, r.cn), q |-> q] :
                  r \in {process_update_command(st, cn, tk.buf, tk.tokens, tk.branch)}})
    ELSE IF tk.branch = "delete"
    THEN process_delete_command(st, cn, q, tk.buf, tk.tokens, grown)
    ELSE IF tk.branch = "quit"
    THEN [st |-> st, cn |-> conn_set_state(cn, "conn_closing"), q |-> q]
    ELSE [st |-> st, cn |-> out_string(cn, R_ERROR), q |-> q]

ByteSteps == {"get", NREAD_ADD, NREAD_SET, NREAD_REPLACE, "delete", "quit", "ERROR"}

\* drive_machine, conn_read: try_read_udp takes a datagram from the socket
ReadUdp(c) ==
    /\ Idle(c)
    /\ conn[c].udp
    /\ LineEnd(conn[c].rbuf) = 0
    /\ sock[c].bytes # <<>>
    /\ LET d == Head(sock[c].bytes)
           r == try_read_udp(conn[c], d)
       IN  /\ conn' = [conn EXCEPT ![c] = r.cn]
           /\ hist' = [hist EXCEPT ![c] = [NoHist EXCEPT !.op = "udp", !.line = d.payload,
                                                          !.data = d.hdr]]
    /\ sock' = [sock EXCEPT ![c].bytes = Tail(@)]
    /\ UNCHANGED <<udp, oplog, started, time0, current_time, oldest_live, items, hash,
                   lru, todelete, deltotal, watch, rt, arith_cmds>>

\* drive_machine, conn_read: try_read_command finds a line in the read buffer
ReadCommand(c) ==
    /\ Idle(c)
    /\ LineEnd(conn[c].rbuf) # 0
    /\ \E grown \in IF Len(todelete) >= deltotal THEN BOOLEAN ELSE {TRUE} :
        LET el   == LineEnd(conn[c].rbuf)
            line == CommandLine(conn[c].rbuf, el)
            tk   == ParsedLine(line)
            r    == run_command(Store, conn[c], Queue, tk, grown)
        IN  /\ tk.branch \in ByteSteps
            /\ StoreAfter(r.st)
            /\ conn' = [conn EXCEPT ![c] =
                           [r.cn EXCEPT !.rbuf = SubSeq(conn[c].rbuf, el + 1,
                                                        Len(conn[c].rbuf))]]
            /\ todelete' = r.q.todelete
            /\ deltotal' = r.q.deltotal
            /\ hist' = [hist EXCEPT ![c] =
                           [NoHist EXCEPT !.op = IF tk.branch \in {NREAD_ADD, NREAD_SET,
                                                                  NREAD_REPLACE}
                                                 THEN "update" ELSE tk.branch,
                                          !.line = line,
                                          !.hits = IF tk.branch = "get"
                                                   THEN HitsOf(Store, GetKeys(line))
                                                   ELSE <<>>,
                                          !.pre = KeyView(Store, K_a)]]
    /\ UNCHANGED <<sock, udp, oplog, started, time0, current_time, oldest_live, watch,
                   rt, arith_cmds>>

\* drive_machine, conn_nread: bytes left over in the read buffer go to the item
NreadBuffered(c) ==
    /\ conn[c].state = "conn_nread"
    /\ conn[c].rtodo > 0
    /\ conn[c].rbuf # <<>>
    /\ LET n == IF Len(conn[c].rbuf) <= conn[c].rtodo THEN Len(conn[c].rbuf)
                ELSE conn[c].rtodo
       IN  conn' = [conn EXCEPT ![c].ritem = @ \o SubSeq(conn[c].rbuf, 1, n),
                                ![c].rbuf = SubSeq(@, n + 1, Len(@)),
                                ![c].rtodo = @ - n]
    /\ UNCHANGED <<sock, udp, oplog, started, time0, current_time, oldest_live, items,
                   hash, lru, todelete, deltotal, hist, watch, rt, arith_cmds>>

\* drive_machine, conn_nread: readv reads some of the bytes still to come
NreadSocket(c) ==
    /\ conn[c].state = "conn_nread"
    /\ conn[c].rtodo > 0
    /\ conn[c].rbuf = <<>>
    /\ ~conn[c].udp
    /\ \E n \in 1..Len(sock[c].bytes) :
        /\ n <= conn[c].rtodo
        /\ conn' = [conn EXCEPT ![c].ritem = @ \o SubSeq(sock[c].bytes, 1, n),
                                ![c].rtodo = @ - n]
        /\ sock' = [sock EXCEPT ![c].bytes = SubSeq(@, n + 1, Len(@))]
    /\ UNCHANGED <<udp, oplog, started, time0, current_time, oldest_live, items,
                   hash, lru, todelete, deltotal, hist, watch, rt, arith_cmds>>

\* drive_machine, conn_nread: everything has been read, complete_nread
NreadComplete(c) ==
    /\ conn[c].state = "conn_nread"
    /\ conn[c].rtodo = 0
    /\ LET it   == conn[c].item
           key  == conn[c].update_key
           vlen == Len(conn[c].ritem) - 2
           data == SubSeq(conn[c].ritem, 1, vlen)
           crlf == SubSeq(conn[c].ritem, vlen + 1, vlen + 2)
           r    == complete_nread(Store, conn[c], data, crlf)
       IN  /\ StoreAfter(r.st)
           /\ conn' = [conn EXCEPT ![c] = [r.cn EXCEPT !.ritem = <<>>]]
           /\ hist' = [hist EXCEPT ![c] =
                          [NoHist EXCEPT !.op = conn[c].item_comm, !.line = crlf,
                                         !.key = key, !.flags = items[it].flags,
                                         !.data = data, !.pre = KeyView(Store, key)]]
    /\ UNCHANGED <<sock, udp, oplog, started, time0, current_time, oldest_live,
                   todelete, deltotal, watch, rt, arith_cmds>>

\* drive_machine, conn_read: try_read_network reads what has arrived
ReadNetwork(c) ==
    /\ Idle(c)
    /\ ~conn[c].udp
    /\ LineEnd(conn[c].rbuf) = 0
    /\ \E n \in 1..Len(sock[c].bytes) :
        /\ conn' = [conn EXCEPT ![c].rbuf = @ \o SubSeq(sock[c].bytes, 1, n)]
        /\ sock' = [sock EXCEPT ![c].bytes = SubSeq(@, n + 1, Len(@))]
    /\ UNCHANGED <<udp, oplog, started, time0, current_time, oldest_live, items,
                   hash, lru, todelete, deltotal, hist, watch, rt, arith_cmds>>

\* a read of the socket returns 0: the client has closed and nothing is left
EndOfStream(c) == sock[c].bytes = <<>> /\ sock[c].eof

\* drive_machine, conn_read: try_read_network finds the end of the stream
ReadEof(c) ==
    /\ Idle(c)
    /\ ~conn[c].udp
    /\ LineEnd(conn[c].rbuf) = 0
    /\ EndOfStream(c)
    /\ conn' = [conn EXCEPT ![c] = conn_set_state(@, "conn_closing")]
    /\ UNCHANGED <<sock, udp, oplog, started, time0, current_time, oldest_live, items,
                   hash, lru, todelete, deltotal, hist, watch, rt, arith_cmds>>

\* drive_machine, conn_nread: readv finds the end of the stream
NreadEof(c) ==
    /\ conn[c].state = "conn_nread"
    /\ conn[c].rtodo > 0
    /\ conn[c].rbuf = <<>>
    /\ EndOfStream(c)
    /\ conn' = [conn EXCEPT ![c] = conn_set_state(@, "conn_closing")]
    /\ UNCHANGED <<sock, udp, oplog, started, time0, current_time, oldest_live, items,
                   hash, lru, todelete, deltotal, hist, watch, rt, arith_cmds>>

\* conn_cleanup without the loop over the items still to transmit
conn_cleanup_item_only(st, cn) ==
    [st |-> IF cn.item # 0 THEN do_item_deref(st, cn.item) ELSE st,
     cn |-> [cn EXCEPT !.item = 0, !.ilist = <<>>, !.rbuf = <<>>, !.iov = <<>>,
                       !.rtodo = 0, !.ritem = <<>>]]

\* void conn_cleanup(conn *c): the item being received and the items still
\* to transmit are released, the buffers go back
conn_cleanup(st, cn) ==
    [st |-> DerefAll(IF cn.item # 0 THEN do_item_deref(st, cn.item) ELSE st, cn.ilist),
     cn |-> [cn EXCEPT !.item = 0, !.ilist = <<>>, !.rbuf = <<>>, !.iov = <<>>,
                       !.rtodo = 0, !.ritem = <<>>]]

\* static void conn_close(conn *c)
conn_close(st, cn) ==
    Only({[st |-> r.st, cn |-> [r.cn EXCEPT !.state = "closed"]] :
             r \in {conn_cleanup(st, cn)}})

\* the thread that runs the listening connections
ListenThread == 0

\* int is_listen_thread(void): the calling thread is the one that accepts
is_listen_thread(thread) == thread = ListenThread

\* void accept_new_conns(const bool do_accept, const bool binary), called on
\* the given thread: what becomes of a connection of the server
accept_new_conns(cn, do_accept, thread) ==
    IF ~is_listen_thread(thread) THEN cn
    ELSE IF cn.state # "conn_listening" THEN cn
    ELSE [cn EXCEPT !.ev_flags = IF do_accept THEN "EV_READ" ELSE "0"]

\* drive_machine, conn_closing: conn_cleanup for UDP; conn_close otherwise,
\* which calls accept_new_conns(true) on the thread of the connection
Closing(c) ==
    /\ conn[c].state = "conn_closing"
    /\ LET r == IF conn[c].udp THEN conn_cleanup(Store, conn[c])
                ELSE conn_close(Store, conn[c])
       IN  /\ StoreAfter(r.st)
           /\ conn' = [d \in Conns |->
                          IF d = c THEN r.cn
                          ELSE IF conn[c].udp THEN conn[d]
                          ELSE accept_new_conns(conn[d], TRUE, conn[c].thread)]
    /\ hist' = [hist EXCEPT ![c] =
                   [NoHist EXCEPT !.op = "close",
                                  !.held = (IF conn[c].item # 0 THEN 1 ELSE 0)
                                               + Len(conn[c].ilist)]]
    /\ UNCHANGED <<sock, udp, oplog, started, time0, current_time, oldest_live,
                   todelete, deltotal, watch, rt, arith_cmds>>

\* drive_machine, conn_swallow: nothing is left to discard
SwallowDone(c) ==
    /\ conn[c].state = "conn_swallow"
    /\ conn[c].sbytes = 0
    /\ conn' = [conn EXCEPT ![c] = conn_set_state(@, "conn_read")]
    /\ UNCHANGED <<sock, udp, oplog, started, time0, current_time, oldest_live, items,
                   hash, lru, todelete, deltotal, hist, watch, rt, arith_cmds>>

\* int tocopy = c->rbytes > c->sbytes ? c->sbytes : c->rbytes
SwallowToCopy(cn) == IF Len(cn.rbuf) > cn.sbytes THEN cn.sbytes ELSE Len(cn.rbuf)

\* what the build makes of c->rcurr += tocopy with a negative tocopy that
\* leaves the buffer: the process faults, or bytes from before the buffer
\* become input
BeforeBuffer == {"fault", "garbage"}

\* drive_machine, conn_swallow: bytes left over in the read buffer are discarded
SwallowBuffered(c) ==
    /\ conn[c].state = "conn_swallow"
    /\ conn[c].sbytes # 0
    /\ conn[c].rbuf # <<>>
    /\ LET tocopy == SwallowToCopy(conn[c])
       IN  IF tocopy >= 0
           THEN conn' = [conn EXCEPT ![c].sbytes = @ - tocopy,
                                     ![c].rbuf = SubSeq(@, tocopy + 1, Len(@))]
           ELSE \E o \in BeforeBuffer :
                    conn' = [conn EXCEPT ![c].sbytes = 0,
                                         ![c].rbuf = IF o = "garbage" THEN <<"?">> \o @
                                                     ELSE @,
                                         ![c].state = IF o = "garbage" THEN @
                                                      ELSE "fault"]
    /\ UNCHANGED <<sock, udp, oplog, started, time0, current_time, oldest_live, items,
                   hash, lru, todelete, deltotal, hist, watch, rt, arith_cmds>>

\* the largest int
INT_MAX == IntVal(<<LIMB - 1, LIMB \div 2 - 1>>)

\* c->sbytes -= res in an int
SubInt(a, n) ==
    IF a < 0 /\ (a + INT_MAX) - n + 1 < 0
    THEN INT_MAX + ((a + INT_MAX) - n + 2)
    ELSE a - n

\* drive_machine, conn_swallow: read discards bytes from the socket; the
\* count (size_t) that a negative sbytes gives is larger than any stream
SwallowSocket(c) ==
    /\ conn[c].state = "conn_swallow"
    /\ conn[c].sbytes # 0
    /\ conn[c].rbuf = <<>>
    /\ \E n \in 1..Len(sock[c].bytes) :
        /\ conn[c].sbytes > 0 => n <= conn[c].sbytes
        /\ conn' = [conn EXCEPT ![c].sbytes = SubInt(@, n)]
        /\ sock' = [sock EXCEPT ![c].bytes = SubSeq(@, n + 1, Len(@))]
    /\ UNCHANGED <<udp, oplog, started, time0, current_time, oldest_live, items,
                   hash, lru, todelete, deltotal, hist, watch, rt, arith_cmds>>

\* drive_machine, conn_swallow: read finds the end of the stream
SwallowEof(c) ==
    /\ conn[c].state = "conn_swallow"
    /\ conn[c].sbytes # 0
    /\ conn[c].rbuf = <<>>
    /\ EndOfStream(c)
    /\ conn' = [conn EXCEPT ![c] = conn_set_state(@, "conn_closing")]
    /\ UNCHANGED <<sock, udp, oplog, started, time0, current_time, oldest_live, items,
                   hash, lru, todelete, deltotal, hist, watch, rt, arith_cmds>>

\* drive_machine, conn_write and conn_mwrite: transmit writes some of the
\* bytes that are left and returns TRANSMIT_INCOMPLETE
TransmitSome(c) ==
    /\ conn[c].state \in {"conn_write", "conn_mwrite"}
    /\ \E n \in 1..(Len(Reply(c)) - conn[c].sent) :
           conn' = [conn EXCEPT ![c].sent = @ + n]
    /\ UNCHANGED <<sock, udp, oplog, started, time0, current_time, oldest_live, items,
                   hash, lru, todelete, deltotal, hist, watch, rt, arith_cmds>>

\* TRANSMIT_COMPLETE without the loop that releases the items
transmit_complete_keep(st, cn) ==
    [st |-> st,
     cn |-> [conn_set_state([cn EXCEPT !.ilist = <<>>],
                            IF cn.state = "conn_mwrite" THEN "conn_read"
                            ELSE cn.write_and_go)
                EXCEPT !.wbuf = <<>>, !.sent = 0]]

\* drive_machine, TRANSMIT_COMPLETE: after conn_mwrite the items of the
\* response are released and the connection reads; after conn_write it goes
\* where write_and_go says
transmit_complete(st, cn) ==
    IF cn.state = "conn_mwrite"
    THEN [st |-> DerefAll(st, cn.ilist),
          cn |-> [conn_set_state([cn EXCEPT !.ilist = <<>>], "conn_read")
                     EXCEPT !.wbuf = <<>>, !.sent = 0]]
    ELSE [st |-> st,
          cn |-> [conn_set_state(cn, cn.write_and_go) EXCEPT !.wbuf = <<>>, !.sent = 0]]

\* drive_machine, conn_write and conn_mwrite: transmit finds nothing left
TransmitComplete(c) ==
    /\ conn[c].state \in {"conn_write", "conn_mwrite"}
    /\ conn[c].sent = Len(Reply(c))
    /\ LET r == transmit_complete(Store, conn[c])
       IN  /\ StoreAfter(r.st)
           /\ conn' = [conn EXCEPT ![c] = r.cn]
    /\ hist' = [hist EXCEPT ![c] = [NoHist EXCEPT !.op = "sent", !.line = hist[c].line,
                                                  !.hits = hist[c].hits,
                                                  !.pre = KeyView(Store, K_a)]]
    /\ UNCHANGED <<sock, udp, oplog, started, time0, current_time, oldest_live,
                   todelete, deltotal, watch, rt, arith_cmds>>

\* transmit: sendmsg fails with an error other than would-block
TransmitError(c) ==
    /\ conn[c].state \in {"conn_write", "conn_mwrite"}
    /\ conn[c].sent < Len(Reply(c))
    /\ conn' = [conn EXCEPT ![c] =
                   IF conn[c].udp THEN [conn_set_state(@, "conn_read") EXCEPT !.sent = 0]
                   ELSE conn_set_state(@, "conn_closing")]
    /\ UNCHANGED <<sock, udp, oplog, started, time0, current_time, oldest_live, items,
                   hash, lru, todelete, deltotal, hist, watch, rt, arith_cmds>>

\* a second of wall clock passes
Tick ==
    /\ time0 < 2 + MaxTime
    /\ time0' = time0 + 1
    /\ UNCHANGED <<sock, udp, oplog, started, current_time, oldest_live, items, hash, lru, todelete,
                   deltotal, conn, hist, watch, rt,
                   arith_cmds>>

\* the clock timer: set_current_time
clock_handler ==
    /\ current_time # set_current_time
    /\ current_time' = set_current_time
    /\ UNCHANGED <<sock, udp, oplog, started, time0, oldest_live, items, hash, lru, todelete,
                   deltotal, conn, hist, watch, rt,
                   arith_cmds>>

\* the delete timer: run_deferred_deletes
delete_handler ==
    /\ todelete # <<>>
    /\ LET r == do_run_deferred_deletes(Store, todelete)
       IN  /\ StoreAfter(r.st)
           /\ todelete' = r.todelete
    /\ UNCHANGED <<sock, udp, oplog, started, time0, current_time, oldest_live, deltotal, conn,
                   hist, watch, rt,
                   arith_cmds>>

----------------------------------------------------------------------------
(* The specification of the store commands.                                *)

\* nothing sent, the client still there
NoSock == [bytes |-> <<>>, eof |-> FALSE]

NoUdp == [phase |-> "off"]

StartOfTime == FromNat(1200000000, LongLimbs)

DELTOTAL == 200

NoRt == [exptime |-> ZeroL(LongLimbs), result |-> ZeroL(IntLimbs)]

Init ==
    /\ started = StartOfTime
    /\ time0 = 2
    /\ current_time = U32(2)
    /\ oldest_live = U32(0)
    /\ items = [id \in ItemIds |-> NoItem]
    /\ hash = <<>>
    /\ lru = <<>>
    /\ todelete = <<>>
    /\ deltotal = DELTOTAL
    /\ conn = [c \in Conns |-> NewConn]
    /\ hist = [c \in Conns |-> NoHist]
    /\ watch = [c \in Conns |-> NoWatch]
    /\ rt = NoRt
    /\ arith_cmds = 0
    /\ oplog = <<>>
    /\ sock = [c \in Conns |-> NoSock]
    /\ udp = NoUdp

\* the lines a connection sends: one client, on the first connection
LinesOf(c, L) == IF c = 1 THEN L ELSE {}

Next ==
    \/ \E c \in Conns : CmdGet(c, LinesOf(c, StoreLines))
    \/ \E c \in Conns : CmdUpdate(c, LinesOf(c, StoreLines))
    \/ \E c \in Conns : Nread(c, StoreValues, Terminators)
    \/ \E c \in Conns : CmdDelete(c, LinesOf(c, StoreLines))
    \/ \E c \in Conns : CmdError(c, LinesOf(c, StoreLines))
    \/ \E c \in Conns : Transmit(c)
    \/ \E c \in Conns : Swallow(c)

Spec == Init /\ [][Next]_vars

----------------------------------------------------------------------------
(* Properties of set, add, replace and delete.                             *)

AllKeys == {K_a, K_b}

\* connection c completes the command op in this step
Completes(c, op) == hist'[c] # hist[c] /\ hist'[c].op = op

\* C1 as stated: a set whose value is complete and ends in \r\n replies
\* STORED, and a get of the key issued next on the connection, with no
\* command for the key in between, returns the flags and bytes of the set
C1_SetThenGet ==
    \A c \in Conns :
        /\ hist[c].op = NREAD_SET /\ hist[c].line = CRLF
              => Reply(c) = R_STORED \o CRLF
        /\ hist[c].op = "get" /\ hist[c].w.ok
                /\ GetKeys(hist[c].line) = <<hist[c].w.key>>
              => Reply(c) = ValueBlock(hist[c].w.key, hist[c].w.flags, hist[c].w.data)
                                \o S_END

\* C1 amended: a set whose value is complete and ends in \r\n replies
\* STORED, and a get of the key issued next on the connection, with no
\* command for the key in between, returns the flags and bytes of the set
\* if the item has not expired when the get is processed
C1_SetThenGetLive ==
    \A c \in Conns :
        /\ hist[c].op = NREAD_SET /\ hist[c].line = CRLF
              => Reply(c) = R_STORED \o CRLF
        /\ hist[c].op = "get" /\ hist[c].w.ok /\ hist[c].wlive
                /\ GetKeys(hist[c].line) = <<hist[c].w.key>>
              => Reply(c) = ValueBlock(hist[c].w.key, hist[c].w.flags, hist[c].w.data)
                                \o S_END

\* a get returns a value of \r\n that a set stored over a delete lock
C1_Witness ==
    \E c \in Conns :
        /\ hist[c].op = "get" /\ hist[c].w.ok /\ hist[c].wlive
        /\ hist[c].w.overlock /\ hist[c].w.data = CRLF
        /\ GetKeys(hist[c].line) = <<hist[c].w.key>>
        /\ Reply(c) = ValueBlock(hist[c].w.key, hist[c].w.flags, CRLF) \o S_END

\* C2: an add of a key that is live and not delete-locked replies
\* NOT_STORED, leaves the flags and value of the item as they were and moves
\* the item to the head of the LRU; an add of an absent key links the new
\* item and replies STORED
C2_Add ==
    [][\A c \in Conns :
        Completes(c, NREAD_ADD) /\ hist'[c].line = CRLF =>
            LET key  == hist'[c].key
                pre  == KeyView(Store, key)
                post == KeyView(StoreNext, key)
            IN  /\ pre.live =>
                    /\ ReplyNext(c) = R_NOT_STORED \o CRLF
                    /\ post.it = pre.it /\ post.live
                    /\ post.flags = pre.flags /\ post.data = pre.data
                    /\ post.head
                /\ ~pre.live /\ ~pre.locked =>
                    /\ ReplyNext(c) = R_STORED \o CRLF
                    /\ post.it = conn[c].item
                    /\ post.flags = hist'[c].flags /\ post.data = hist'[c].data]_vars

\* an add found its key live and behind another item in the LRU
C2_Witness ==
    \E c \in Conns :
        /\ hist[c].op = NREAD_ADD /\ hist[c].line = CRLF
        /\ hist[c].pre.live /\ ~hist[c].pre.head
        /\ Reply(c) = R_NOT_STORED \o CRLF
        /\ Head(lru) = hist[c].pre.it

\* C3: a replace of an absent key replies NOT_STORED and changes nothing, a
\* get after it misses; a replace of a key that is live and not
\* delete-locked puts the new item in place of the old and replies STORED
C3_Replace ==
    [][\A c \in Conns :
        Completes(c, NREAD_REPLACE) /\ hist'[c].line = CRLF =>
            LET key  == hist'[c].key
                pre  == KeyView(Store, key)
                post == KeyView(StoreNext, key)
            IN  /\ ~pre.live /\ ~pre.locked =>
                    /\ ReplyNext(c) = R_NOT_STORED \o CRLF
                    /\ ~post.live
                    /\ \A k \in AllKeys : Sight(StoreNext, k) = Sight(Store, k)
                    /\ pre.it = 0 => hash' = hash /\ lru' = lru
                /\ pre.live =>
                    /\ ReplyNext(c) = R_STORED \o CRLF
                    /\ post.it = conn[c].item
                    /\ post.flags = hist'[c].flags /\ post.data = hist'[c].data
                    /\ ~items'[pre.it].linked]_vars

\* a replace found no item of its key
C3_Witness ==
    \E c \in Conns :
        /\ hist[c].op = NREAD_REPLACE /\ hist[c].line = CRLF
        /\ hist[c].pre.it = 0
        /\ Reply(c) = R_NOT_STORED \o CRLF
        /\ KeyView(Store, hist[c].key).it = 0

\* C5: a delete without exptime or with exptime 0 of a live key unlinks the
\* item and replies DELETED, a get after it misses; where the key has no
\* live item it replies NOT_FOUND and leaves the store as it was
C5_Delete ==
    [][\A c \in Conns :
        Completes(c, "delete") /\ hist'[c].data \in {<<>>, <<"0">>} =>
            LET key  == hist'[c].key
                pre  == KeyView(Store, key)
                post == KeyView(StoreNext, key)
            IN  /\ pre.live =>
                    /\ ReplyNext(c) = R_DELETED \o CRLF
                    /\ ~items'[pre.it].linked
                    /\ post.it = 0
                /\ ~pre.live =>
                    /\ ReplyNext(c) = R_NOT_FOUND \o CRLF
                    /\ \A k \in AllKeys : Sight(StoreNext, k) = Sight(Store, k)
                    /\ todelete' = todelete
                    /\ pre.it = 0 \/ pre.locked =>
                           items' = items /\ hash' = hash /\ lru' = lru]_vars

\* a delete with exptime 0 has unlinked a live item
C5_Witness ==
    \E c \in Conns :
        /\ hist[c].op = "delete" /\ hist[c].data = <<"0">>
        /\ hist[c].pre.live
        /\ Reply(c) = R_DELETED \o CRLF
        /\ KeyView(Store, hist[c].key).it = 0

----------------------------------------------------------------------------
(* The delete window: the store commands with the clock and the timers.    *)

NextWindow ==
    \/ \E c \in Conns : CmdGet(c, LinesOf(c, WindowLines))
    \/ \E c \in Conns : CmdUpdate(c, LinesOf(c, WindowLines))
    \/ \E c \in Conns : Nread(c, StoreValues, {CRLF})
    \/ \E c \in Conns : CmdDelete(c, LinesOf(c, WindowLines))
    \/ \E c \in Conns : Transmit(c)
    \/ Tick
    \/ clock_handler
    \/ delete_handler

SpecWindow == Init /\ [][NextWindow]_vars

\* the key is delete-locked and the window of its delete is open
InWindow(st, key) ==
    /\ KeyView(st, key).locked
    /\ ~item_delete_lock_over(st.items[KeyView(st, key).it])

\* what C4 says of the commands that find the key inside its delete window
WindowSteps(c) ==
    /\ Completes(c, "get") /\ GetKeys(hist'[c].line) = <<K_a>> /\ InWindow(Store, K_a)
          => ReplyNext(c) = S_END
    /\ (Completes(c, NREAD_ADD) \/ Completes(c, NREAD_REPLACE))
            /\ InWindow(Store, hist'[c].key)
          => /\ ReplyNext(c) = R_NOT_STORED \o CRLF
             /\ KeyView(StoreNext, hist'[c].key) = KeyView(Store, hist'[c].key)
             /\ hash' = hash /\ lru' = lru
             /\ ~items'[conn[c].item].linked
    /\ Completes(c, NREAD_SET) /\ InWindow(Store, hist'[c].key)
          => /\ ReplyNext(c) = R_STORED \o CRLF
             /\ KeyView(StoreNext, hist'[c].key).it = conn[c].item
             /\ ~KeyView(StoreNext, hist'[c].key).locked
             /\ KeyView(StoreNext, hist'[c].key).flags = hist'[c].flags
             /\ KeyView(StoreNext, hist'[c].key).data = hist'[c].data

\* the get that follows a set over a delete lock
GetOverLock(c) ==
    /\ Completes(c, "get")
    /\ hist'[c].w.ok /\ hist'[c].w.overlock
    /\ GetKeys(hist'[c].line) = <<hist'[c].w.key>>

\* C4 as stated: from a delete K T with T > 0 that replies DELETED until its
\* window expires, a get of K misses, an add and a replace reply NOT_STORED
\* and store nothing, a set replies STORED and the get that follows returns
\* the value of the set
C4_DeleteWindow ==
    [][\A c \in Conns :
        /\ WindowSteps(c)
        /\ GetOverLock(c)
              => ReplyNext(c) = ValueBlock(hist'[c].w.key, hist'[c].w.flags,
                                           hist'[c].w.data) \o S_END]_vars

\* C4 amended: as C4, the get that follows the set returning the value of
\* the set if that item has not expired when the get is processed
C4_DeleteWindowLive ==
    [][\A c \in Conns :
        /\ WindowSteps(c)
        /\ GetOverLock(c) /\ hist'[c].wlive
              => ReplyNext(c) = ValueBlock(hist'[c].w.key, hist'[c].w.flags,
                                           hist'[c].w.data) \o S_END]_vars

\* an add was rejected inside the window of a delete, the clock having advanced
C4_Witness ==
    \E c \in Conns :
        /\ hist[c].op = NREAD_ADD
        /\ hist[c].pre.locked
        /\ InWindow(Store, hist[c].key)
        /\ current_time = U32(3)
        /\ Reply(c) = R_NOT_STORED \o CRLF

----------------------------------------------------------------------------
(* incr and decr.                                                          *)

NextArith ==
    \/ \E c \in Conns : CmdGet(c, LinesOf(c, ArithLines))
    \/ \E c \in Conns : CmdUpdate(c, LinesOf(c, ArithLines))
    \/ \E c \in Conns : Nread(c, ArithValues, {CRLF})
    \/ \E c \in Conns : CmdArith(c, LinesOf(c, ArithLines))
    \/ \E c \in Conns : Transmit(c)

SpecArith == Init /\ [][NextArith]_vars

\* the number a decimal text of less than 2^64 denotes, in 64 bits
Number(text) == strtoul(text).val

\* the delta is one the command accepts
Accepted(text) == ~strtoul(text).erange

\* C6 as stated: decr of a stored decimal v by delta replies and stores
\* max(0, v - delta); where v < delta the reply is 0 and a get then returns
\* the one byte "0"
C6_DecrSaturates ==
    [][\A c \in Conns :
        Completes(c, "decr") /\ hist'[c].pre.live /\ Accepted(hist'[c].data) =>
            LET v    == Number(hist'[c].pre.data)
                d    == Number(hist'[c].data)
                want == IF LeU(v, d) THEN <<"0">> ELSE Utoa(SubL(v, d))
                post == KeyView(StoreNext, hist'[c].key)
            IN  /\ ReplyNext(c) = want \o CRLF
                /\ post.live /\ post.data = want]_vars

\* C7 as stated: incr of a live item of decimal value v by an accepted delta
\* replies the decimal of v + delta and makes it the value a get returns; on
\* a key without live item it replies NOT_FOUND and creates no item
C7_Incr ==
    [][\A c \in Conns :
        Completes(c, "incr") /\ Accepted(hist'[c].data) =>
            LET v    == Number(hist'[c].pre.data)
                d    == Number(hist'[c].data)
                want == Utoa(AddL(v, d, 0))
                post == KeyView(StoreNext, hist'[c].key)
            IN  /\ hist'[c].pre.live =>
                    /\ ReplyNext(c) = want \o CRLF
                    /\ post.live /\ post.data = want
                /\ ~hist'[c].pre.live =>
                    /\ ReplyNext(c) = R_NOT_FOUND \o CRLF
                    /\ ~post.live
                    /\ \A id \in ItemIds : items'[id].used => items[id].used]_vars

----------------------------------------------------------------------------
(* get of several keys.                                                    *)

NextGet ==
    \/ \E c \in Conns : CmdGet(c, LinesOf(c, GetLines))
    \/ \E c \in Conns : GetAgain(c)
    \/ \E c \in Conns : CmdUpdate(c, LinesOf(c, GetLines))
    \/ \E c \in Conns : Nread(c, StoreValues, {CRLF})
    \/ \E c \in Conns : Transmit(c)

SpecGet == Init /\ [][NextGet]_vars

\* C8 as stated: the response to a get of any number of keys is a VALUE
\* block for each key that hits, in the order of the keys, nothing for a key
\* that misses, then one END line
C8_GetResponse ==
    \A c \in Conns :
        hist[c].op = "get" => Reply(c) = ValueBlocks(hist[c].hits) \o S_END

----------------------------------------------------------------------------
(* flush_all.                                                              *)

NextFlush ==
    \/ \E c \in Conns : CmdGet(c, LinesOf(c, FlushLines))
    \/ \E c \in Conns : CmdUpdate(c, LinesOf(c, FlushLines))
    \/ \E c \in Conns : Nread(c, StoreValues, {CRLF})
    \/ \E c \in Conns : CmdFlushAll(c, LinesOf(c, FlushLines))
    \/ \E c \in Conns : Transmit(c)
    \/ Tick
    \/ clock_handler

SpecFlush == Init /\ [][NextFlush]_vars

\* the item has not reached its expiry time and is not delete-locked
StillLive(it) ==
    ~it.deleted /\ (it.exptime = U32(0) \/ LtU(current_time, it.exptime))

\* C9 as stated: after a flush_all without argument has replied OK, a get of
\* a key stored before it misses, and a get of a key stored after it hits
\* while the item is still live
C9_FlushAll ==
    [][\A c \in Conns :
        /\ Completes(c, "flush_all") => ReplyNext(c) = R_OK \o CRLF
        /\ Completes(c, "get") =>
            LET key == GetKeys(hist'[c].line)[1]
                id  == KeyView(Store, key).it
            IN  /\ id # 0 /\ items[id].flushed => ReplyNext(c) = S_END
                /\ id # 0 /\ ~items[id].flushed /\ oldest_live # U32(0)
                        /\ StillLive(items[id])
                      => ReplyNext(c) = ValueBlock(key, items[id].flags, items[id].data)
                                            \o S_END]_vars

----------------------------------------------------------------------------
(* realtime, applied to expiry times around its case boundaries.           *)

\* times at which the server was started
RtStarted == {StartOfTime, FromNat(1700000000, LongLimbs)}

\* seconds the server has been up
RtUptime == {2, 3, 100, REALTIME_MAXDELTA + 1}

MaxDelta == FromNat(REALTIME_MAXDELTA, LongLimbs)

\* 2^32 as a time_t
Two32 == [i \in 1..LongLimbs |-> IF i = IntLimbs + 1 THEN 1 ELSE 0]

\* the expiry times a client gives: relative, absolute, negative
RtExptimes ==
    {FromNat(n, LongLimbs) : n \in {0, 1, 100, REALTIME_MAXDELTA, REALTIME_MAXDELTA + 1}}
        \cup {SubL(started, FromNat(1, LongLimbs)), started,
              AddL(started, FromNat(1, LongLimbs), 0),
              AddL(started, FromNat(50, LongLimbs), 0),
              AddL(started, FromNat(5000000, LongLimbs), 0),
              AddL(started, Two32, 0)}
        \cup {NegL(FromNat(n, LongLimbs)) : n \in {1, 2, 3, 100}}

InitRealtime ==
    /\ started \in RtStarted
    /\ time0 \in RtUptime
    /\ current_time = set_current_time
    /\ oldest_live = U32(0)
    /\ items = [id \in ItemIds |-> NoItem]
    /\ hash = <<>>
    /\ lru = <<>>
    /\ todelete = <<>>
    /\ deltotal = DELTOTAL
    /\ conn = [c \in Conns |-> NewConn]
    /\ hist = [c \in Conns |-> NoHist]
    /\ watch = [c \in Conns |-> NoWatch]
    /\ rt = NoRt
    /\ arith_cmds = 0
    /\ oplog = <<>>
    /\ sock = [c \in Conns |-> NoSock]
    /\ udp = NoUdp

\* a caller applies realtime to an expiry time
CallRealtime ==
    /\ \E e \in RtExptimes : rt' = [exptime |-> e, result |-> realtime(e)]
    /\ UNCHANGED <<sock, udp, oplog, started, time0, current_time, oldest_live, items, hash, lru,
                   todelete, deltotal, conn, hist, watch, arith_cmds>>

NextRealtime == CallRealtime

SpecRealtime == InitRealtime /\ [][NextRealtime]_vars

\* the expiry time lies in the past: a negative offset, or an absolute time
\* that is not after the present second
GivenInPast(e) ==
    \/ IsNegL(e)
    \/ LtS(MaxDelta, e) /\ LeS(e, AddL(started, ZExtL(current_time, LongLimbs), 0))

\* the relative time is more than 30 days after current_time
FarFuture(r) ==
    LtU(AddL(ZExtL(current_time, LongLimbs), MaxDelta, 0), ZExtL(r, LongLimbs))

\* C10 as stated: realtime returns 0 for exptime 0, current_time + exptime
\* for 0 < exptime <= 30 days, exptime - started for a larger exptime after
\* started and 1 for a larger exptime at or before started; an expiry time
\* given in the past becomes neither 0 (never) nor a time far in the future
C10_Realtime ==
    LET e == rt.exptime
        r == ZExtL(rt.result, LongLimbs)
    IN  /\ e = ZeroL(LongLimbs) => r = ZeroL(LongLimbs)
        /\ LtS(ZeroL(LongLimbs), e) /\ LeS(e, MaxDelta)
              => r = AddL(ZExtL(current_time, LongLimbs), e, 0)
        /\ LtS(MaxDelta, e) /\ LtS(started, e) => r = SubL(e, started)
        /\ LtS(MaxDelta, e) /\ LeS(e, started) => r = FromNat(1, LongLimbs)
        /\ GivenInPast(e) => r # ZeroL(LongLimbs) /\ ~FarFuture(rt.result)

----------------------------------------------------------------------------
(* Protocol errors.                                                        *)

NextError ==
    \/ \E c \in Conns : CmdGet(c, LinesOf(c, ErrorLines))
    \/ \E c \in Conns : CmdUpdate(c, LinesOf(c, ErrorLines))
    \/ \E c \in Conns : Nread(c, StoreValues, {CRLF})
    \/ \E c \in Conns : CmdDelete(c, LinesOf(c, ErrorLines))
    \/ \E c \in Conns : CmdError(c, LinesOf(c, ErrorLines))
    \/ \E c \in Conns : Transmit(c)

SpecError == Init /\ [][NextError]_vars

\* the words of a command line
Words(line) == KeysOf(line \o <<NUL>>, 1)

\* the first word is a command and the number of words is one it takes
KnownCommand(ws) ==
    /\ ws # <<>>
    /\ \/ ws[1] \in {W_get, W_bget} /\ Len(ws) >= 2
       \/ ws[1] \in {W_set, W_add, W_replace} /\ Len(ws) = 5
       \/ ws[1] \in {W_incr, W_decr} /\ Len(ws) = 3
       \/ ws[1] = W_delete /\ Len(ws) \in {2, 3}
       \/ ws[1] = W_flush_all /\ Len(ws) \in {1, 2}
       \/ ws[1] = W_stats
       \/ ws[1] \in {W_version, W_quit} /\ Len(ws) = 1
       \/ ws[1] \in {W_metaget, W_own, W_disown, W_bg, W_verbosity, W_flush_regex}
             /\ Len(ws) = 2

\* connection c processes a command line in this step
ReadsLine(c) ==
    /\ hist'[c] # hist[c]
    /\ hist'[c].op \notin {"", NREAD_SET, NREAD_ADD, NREAD_REPLACE}

----------------------------------------------------------------------------
(* Two worker threads on one key.                                          *)

\* commands the clients send in one run
MaxOps == 3

\* the commands begun: those answered and those a connection is busy with
Begun == Len(oplog) + Cardinality({c \in Conns : ~Idle(c)})

NextThreads ==
    \/ \E c \in Conns : Begun < MaxOps /\ CmdUpdate(c, ThreadLines)
    \/ \E c \in Conns : Nread(c, ThreadValues, {CRLF})
    \/ \E c \in Conns : Begun < MaxOps /\ CmdArith(c, ThreadLines)
    \/ \E c \in Conns : Begun < MaxOps /\ DeleteGet(c, ThreadLines)
    \/ \E c \in Conns : DeleteDone(c)
    \/ \E c \in Conns : Respond(c)

SpecThreads == Init /\ [][NextThreads]_vars

\* a store command of the history run alone, start to end, on the store st
\* (the update lines of ThreadLines give the expiry time 0)
SerialUpdate(st, q, e, a) ==
    Only({[st |-> r.st, q |-> q, reply |-> r.cn.wbuf] :
             r \in {complete_nread(a.st, [NewConn EXCEPT !.item = a.it,
                                                         !.item_comm = e.op,
                                                         !.update_key = e.key],
                                   e.data, CRLF)}})

SerialArith(st, q, e) ==
    Only({[st |-> r.st, q |-> q, reply |-> r.cn.wbuf] :
             r \in {process_arithmetic_command(st, NewConn, Parsed[e.line].buf,
                                               Parsed[e.line].tokens, e.op = "incr")}})

SerialDelete(st, q, e) ==
    Only({[st |-> r.st, q |-> r.q, reply |-> r.cn.wbuf] :
             r \in {process_delete_command(st, NewConn, q, Parsed[e.line].buf,
                                           Parsed[e.line].tokens, TRUE)}})

SerialOp(st, q, e) ==
    IF e.op \in {NREAD_SET, NREAD_ADD, NREAD_REPLACE}
    THEN SerialUpdate(st, q, e, do_item_alloc(st, e.key, e.flags, U32(0), Len(e.data)))
    ELSE IF e.op \in {"incr", "decr"} THEN SerialArith(st, q, e)
    ELSE SerialDelete(st, q, e)

RECURSIVE Serial(_, _, _, _, _)
\* the commands log[p[i]], i = n .. Len(log), run one after the other give
\* the replies of the log; the result is the store they leave
Serial(st, q, log, p, n) ==
    IF n > Len(log) THEN [ok |-> TRUE, st |-> st]
    ELSE Only({IF r.reply = log[p[n]].reply
               THEN Serial(r.st, r.q, log, p, n + 1)
               ELSE [ok |-> FALSE, st |-> st] :
                  r \in {SerialOp(st, q, log[p[n]])}})

EmptyStore == [items |-> [id \in ItemIds |-> NoItem], hash |-> <<>>, lru |-> <<>>]

EmptyQueue == [todelete |-> <<>>, deltotal |-> DELTOTAL]

\* the order p of the answered commands explains the replies and the item
\* now visible under the key
Explains(p) ==
    \E r \in {Serial(EmptyStore, EmptyQueue, oplog, p, 1)} :
        r.ok /\ Sight(r.st, K_a) = Sight(Store, K_a)

\* no command is under way and no reply is waiting
Quiet == \A c \in Conns : Idle(c)

\* C12: whenever every command sent so far has been answered, some serial
\* order of those commands gives every reply that was sent and leaves
\* visible under the key the item that is visible now.
C12_Linearizable ==
    Quiet => \E p \in Permutations(DOMAIN oplog) : Explains(p)

----------------------------------------------------------------------------
(* A response on the UDP socket.                                           *)

\* the add_iov calls of a response: the bytes, is_start, and whether the
\* caller looks at the result
OutStringFrags(str) == <<[b |-> str \o CRLF, is_start |-> TRUE, checked |-> TRUE]>>

HitFrags(key, flags, data) ==
    <<[b |-> S_VALUE, is_start |-> TRUE, checked |-> TRUE],
      [b |-> key, is_start |-> FALSE, checked |-> TRUE],
      [b |-> FlagsLenString([flags |-> flags, data |-> data]), is_start |-> FALSE,
       checked |-> TRUE],
      [b |-> data \o CRLF, is_start |-> FALSE, checked |-> TRUE]>>

EndFrags == <<[b |-> S_END, is_start |-> TRUE, checked |-> FALSE]>>

\* the responses: a reply line of out_string (conn_write), and gets with no
\* hit, one hit, a hit with a long value, two hits (process_get_command)
UdpResponses ==
    {OutStringFrags(R_STORED), OutStringFrags(R_NOT_FOUND), EndFrags,
     HitFrags(K_a, U32(0), <<"5">>) \o EndFrags,
     HitFrags(K_a, U32(5), <<"1", "2", "3", "4", "5", "6", "7", "8", "9", "0">>)
         \o EndFrags,
     HitFrags(K_a, U32(0), <<"5">>) \o HitFrags(K_b, U32(0), <<"1", "0">>) \o EndFrags}

RequestIds == {0, 258, 65535}

\* entries of the scatter list: the connection's, and one with room to spare
UdpIovSizes == {IovSize, 3 * IovSize}

InitUdp ==
    /\ started = StartOfTime
    /\ time0 = 2
    /\ current_time = U32(2)
    /\ oldest_live = U32(0)
    /\ items = [id \in ItemIds |-> NoItem]
    /\ hash = <<>>
    /\ lru = <<>>
    /\ todelete = <<>>
    /\ deltotal = DELTOTAL
    /\ conn = [c \in Conns |-> NewConn]
    /\ hist = [c \in Conns |-> NoHist]
    /\ watch = [c \in Conns |-> NoWatch]
    /\ rt = NoRt
    /\ arith_cmds = 0
    /\ oplog = <<>>
    /\ sock = [c \in Conns |-> NoSock]
    /\ \E frags \in UdpResponses, id \in RequestIds, size \in UdpIovSizes :
           udp = [phase |-> "command", c |-> NewMsgConn(TRUE, size, id),
                  frags |-> frags, todo |-> frags, out |-> <<>>]

UdpUnchanged ==
    UNCHANGED <<started, time0, current_time, oldest_live, items, hash, lru, todelete,
                deltotal, conn, hist, watch, rt, arith_cmds, oplog, sock>>

\* process_command, conn_write: the first message of the response
UdpAddMsghdr ==
    /\ udp.phase = "command"
    /\ LET r == add_msghdr(udp.c)
       IN  udp' = IF r.rc # 0 THEN [udp EXCEPT !.phase = "closing"]
                  ELSE [udp EXCEPT !.phase = "build", !.c = r.c]
    /\ UdpUnchanged

\* the next add_iov of the response: when one fails whose result the caller
\* looks at, the response is not sent
UdpAddIov ==
    /\ udp.phase = "build"
    /\ udp.todo # <<>>
    /\ LET f == Head(udp.todo)
           r == add_iov_msg(udp.c, f.b, f.is_start)
       IN  udp' = IF r.rc # 0 /\ f.checked THEN [udp EXCEPT !.phase = "failed", !.c = r.c]
                  ELSE [udp EXCEPT !.c = r.c, !.todo = Tail(@)]
    /\ UdpUnchanged

UdpBuildHeaders ==
    /\ udp.phase = "build"
    /\ udp.todo = <<>>
    /\ udp' = [udp EXCEPT !.phase = "send", !.c = build_udp_headers(@)]
    /\ UdpUnchanged

\* transmit: sendmsg sends the next message as one datagram
UdpTransmit ==
    /\ udp.phase = "send"
    /\ LET es == MsgIov(udp.c, Len(udp.out) + 1)
           d  == [h |-> es[1].h, b |-> EntryBytes(Tail(es))]
       IN  udp' = [udp EXCEPT !.out = Append(@, d),
                              !.phase = IF Len(udp.out) + 1 = Len(udp.c.msglist)
                                        THEN "done" ELSE "send"]
    /\ UdpUnchanged

NextUdp == UdpAddMsghdr \/ UdpAddIov \/ UdpBuildHeaders \/ UdpTransmit

SpecUdp == InitUdp /\ [][NextUdp]_vars

RECURSIVE TcpBuild(_, _)
\* the same add_iov calls on a TCP connection
TcpBuild(c, todo) ==
    IF todo = <<>> THEN [ok |-> TRUE, c |-> c]
    ELSE Only({IF r.rc # 0 /\ Head(todo).checked THEN [ok |-> FALSE, c |-> r.c]
               ELSE TcpBuild(r.c, Tail(todo)) :
                  r \in {add_iov_msg(c, Head(todo).b, Head(todo).is_start)}})

\* what a TCP connection with a scatter list of the same size sends
TcpResponse(frags, iovsize) ==
    TcpBuild(add_msghdr(NewMsgConn(FALSE, iovsize, 0)).c, frags)

RECURSIVE Payloads(_)
Payloads(ds) == IF ds = <<>> THEN <<>> ELSE Head(ds).b \o Payloads(Tail(ds))

\* C13: the datagrams of a response carry the request ID, the sequence
\* numbers 0 .. n-1 and the total n, and their payloads without the headers,
\* one after the other, are the bytes the TCP connection sends.
C13_UdpResponse ==
    udp.phase = "done" =>
        LET n   == Len(udp.out)
            id  == udp.c.request_id
            tcp == TcpResponse(udp.frags, udp.c.iovsize)
        IN  /\ \A i \in 1..n :
                   SubSeq(udp.out[i].h, 1, 6) =
                       <<id \div 256, id % 256, (i - 1) \div 256, (i - 1) % 256,
                         n \div 256, n % 256>>
            /\ tcp.ok => Payloads(udp.out) = EntryBytes(tcp.c.iov)

RECURSIVE FragsLen(_)
\* the bytes of the add_iov calls
FragsLen(frags) == IF frags = <<>> THEN 0 ELSE Len(Head(frags).b) + FragsLen(Tail(frags))

\* the add_iov calls of the response that are one of the three in front of
\* a value: VALUE, the key, the flags and length
LeadingFrags(frags) ==
    {k \in DOMAIN frags :
        \E v \in DOMAIN frags : frags[v].b = S_VALUE /\ k \in v..(v + 2)}

\* the number of payload bytes in the first i datagrams
PayloadUpTo(out, i) == Len(Payloads(SubSeq(out, 1, i)))

\* C24: of a response sent in several datagrams, each of the three
\* fragments in front of a value (VALUE, the key, the flags and length) lies
\* whole in one datagram: no datagram ends inside it.
C24_LeadingFragmentsWhole ==
    udp.phase = "done" =>
        \A k \in LeadingFrags(udp.frags), i \in 1..(Len(udp.out) - 1) :
            LET start == FragsLen(SubSeq(udp.frags, 1, k - 1))
                bd    == PayloadUpTo(udp.out, i)
            IN  ~(start < bd /\ bd < start + Len(udp.frags[k].b))

----------------------------------------------------------------------------
(* Requests on the UDP socket.                                             *)

\* datagrams a client sends in one run
MaxDatagrams == 2

\* the datagrams a client of a connection that closes sends
MaxQuitDatagrams == 3

DatagramSeqs(n) == UNION {[1..k -> UdpDatagrams] : k \in 1..n}

InitUdpRequest ==
    /\ started = StartOfTime
    /\ time0 = 2
    /\ current_time = U32(2)
    /\ oldest_live = U32(0)
    /\ items = [id \in ItemIds |-> NoItem]
    /\ hash = <<>>
    /\ lru = <<>>
    /\ todelete = <<>>
    /\ deltotal = DELTOTAL
    /\ conn = [c \in Conns |-> [NewConn EXCEPT !.udp = (c = 1)]]
    /\ hist = [c \in Conns |-> NoHist]
    /\ watch = [c \in Conns |-> NoWatch]
    /\ rt = NoRt
    /\ arith_cmds = 0
    /\ oplog = <<>>
    /\ \E ds \in DatagramSeqs(MaxDatagrams) :
           sock = [c \in Conns |-> IF c = 1 THEN [bytes |-> ds, eof |-> FALSE]
                                   ELSE NoSock]
    /\ udp = NoUdp

NextUdpRequest ==
    \/ \E c \in Conns : ReadUdp(c)
    \/ \E c \in Conns : ReadCommand(c)
    \/ \E c \in Conns : NreadBuffered(c)
    \/ \E c \in Conns : NreadComplete(c)
    \/ \E c \in Conns : Transmit(c)

SpecUdpRequest == InitUdpRequest /\ [][NextUdpRequest]_vars

\* the datagram count in the header of the datagram that try_read_udp took
HeaderTotal(h) == h.data[5] * 256 + h.data[6]

\* the connection takes a request of more than a header from the socket
TakesRequest(c) ==
    /\ hist'[c] # hist[c]
    /\ hist'[c].op = "udp"
    /\ hist'[c].line # <<>>

----------------------------------------------------------------------------
(* References to items.                                                    *)

\* the lines of a connection: the first gets and sets, the second sets,
\* increments, deletes and flushes meanwhile
RefLinesOf(c) ==
    IF c = 1 THEN {Join(<<W_get, K_a>>), Join(<<W_set, K_a, <<"0">>, <<"0">>, <<"1">> >>)}
    ELSE IF c = 2 THEN RefLines \ {Join(<<W_get, K_a>>)}
    ELSE {}

\* the commands of one run
MaxRefOps == 3

NextRefs ==
    \/ \E c \in Conns : Begun < MaxRefOps /\ CmdGet(c, RefLinesOf(c))
    \/ \E c \in Conns : Begun < MaxRefOps /\ CmdUpdate(c, RefLinesOf(c))
    \/ \E c \in Conns : Nread(c, ThreadValues, {CRLF})
    \/ \E c \in Conns : Begun < MaxRefOps /\ CmdArith(c, RefLinesOf(c))
    \/ \E c \in Conns : Begun < MaxRefOps /\ DeleteGet(c, RefLinesOf(c))
    \/ \E c \in Conns : DeleteDone(c)
    \/ \E c \in Conns : Begun < MaxRefOps /\ CmdFlushAll(c, RefLinesOf(c))
    \/ \E c \in Conns : Respond(c)
    \/ Tick
    \/ clock_handler
    \/ delete_handler

SpecRefs == Init /\ [][NextRefs]_vars

\* how often id occurs in the sequence s
Count(s, id) == Cardinality({i \in DOMAIN s : s[i] = id})

\* the references a connection holds to the item: the item it receives and
\* the entries of its list of items to transmit
ConnHolds(cn, id) ==
    (IF cn.item = id THEN 1 ELSE 0) + Count(cn.ilist, id) + Count(cn.get.pend, id)
        + (IF cn.del.it = id THEN 1 ELSE 0)

RECURSIVE SumHolds(_, _)
SumHolds(cs, id) ==
    IF cs = {} THEN 0
    ELSE LET c == CHOOSE x \in cs : TRUE
         IN  ConnHolds(conn[c], id) + SumHolds(cs \ {c}, id)

\* the references to the item: the index, the connections, the delete queue
Holders(id) == Count(hash, id) + SumHolds(Conns, id) + Count(todelete, id)

\* C15: the storage of an item is not freed while the index, a connection
\* that receives it, a connection that transmits it or the delete queue
\* refers to it: every such reference is counted in the reference count of
\* an item in use, so that the count is zero and the item unlinked before
\* the storage goes, also after another connection replaced, deleted or
\* flushed the item.
C15_NoFreeWhileReferenced ==
    \A id \in ItemIds :
        /\ Holders(id) > 0 => items[id].used /\ items[id].refcount >= Holders(id)
        /\ items[id].linked <=> Count(hash, id) = 1
        /\ ~items[id].used => items[id] = NoItem

\* a connection transmits an item that another connection has replaced
\* since: the item is unlinked and the connection's reference is the last
C15_Witness ==
    \E c \in Conns, id \in ItemIds :
        /\ conn[c].state = "conn_mwrite"
        /\ Count(conn[c].ilist, id) = 1
        /\ ~items[id].linked
        /\ items[id].refcount = 1
        /\ \E d \in ItemIds : d # id /\ items[d].linked /\ items[d].key = items[id].key

----------------------------------------------------------------------------
(* One item per key in the index.                                          *)

\* the commands of one run
MaxIndexOps == 3

NextIndex ==
    \/ \E c \in Conns : Begun < MaxIndexOps /\ CmdUpdate(c, LinesOf(c, IndexLines))
    \/ \E c \in Conns : Nread(c, ThreadValues, {CRLF})
    \/ \E c \in Conns : Begun < MaxIndexOps /\ CmdArith(c, LinesOf(c, IndexLines))
    \/ \E c \in Conns : Begun < MaxIndexOps /\ CmdDelete(c, LinesOf(c, IndexLines))
    \/ \E c \in Conns : Begun < MaxIndexOps /\ CmdFlushAll(c, LinesOf(c, IndexLines))
    \/ \E c \in Conns : Respond(c)
    \/ Tick
    \/ clock_handler
    \/ delete_handler

SpecIndex == Init /\ [][NextIndex]_vars

\* the items the index holds under the key
LinkedUnder(h, its, key) == {i \in DOMAIN h : its[h[i]].key = key}

\* the item of the index under the key, 0 for none
LinkedItem(h, its, key) ==
    IF LinkedUnder(h, its, key) = {} THEN 0
    ELSE h[CHOOSE i \in LinkedUnder(h, its, key) : TRUE]

\* C16: whatever set, add, replace, incr, decr, delete, sweeps of the delete
\* queue and flush_all have run, the index holds at most one item under a
\* key. A store that answers STORED leaves the item it received as the one
\* item under its key: it links it where no item was linked, and where one
\* was linked, live or hidden by a delete, that one is unlinked.
C16_OnePerKey ==
    [][/\ \A key \in {K_a, K_b} : Cardinality(LinkedUnder(hash', items', key)) <= 1
       /\ \A id \in ItemIds : items'[id].linked <=> id \in Range(hash')
       /\ \A c \in Conns :
             conn[c].state = "conn_nread" /\ ReplyNext(c) = R_STORED \o CRLF =>
                 /\ LinkedItem(hash', items', conn[c].update_key) = conn[c].item
                 /\ LinkedItem(hash, items, conn[c].update_key) # 0 =>
                       ~items'[LinkedItem(hash, items, conn[c].update_key)].linked
      ]_vars

\* a set has replaced an item that a delete hides: the hidden item waits
\* unlinked in the delete queue, the new one is the one under the key
C16_Witness ==
    \E c \in Conns, id \in ItemIds :
        /\ Reply(c) = R_STORED \o CRLF
        /\ Count(todelete, id) = 1
        /\ ~items[id].linked
        /\ items[id].key = K_a
        /\ LinkedItem(hash, items, K_a) # 0

----------------------------------------------------------------------------
(* Receiving the value of a set.                                           *)

InitNread ==
    /\ started = StartOfTime
    /\ time0 = 2
    /\ current_time = U32(2)
    /\ oldest_live = U32(0)
    /\ items = [id \in ItemIds |-> NoItem]
    /\ hash = <<>>
    /\ lru = <<>>
    /\ todelete = <<>>
    /\ deltotal = DELTOTAL
    /\ conn = [c \in Conns |-> NewConn]
    /\ hist = [c \in Conns |-> NoHist]
    /\ watch = [c \in Conns |-> NoWatch]
    /\ rt = NoRt
    /\ arith_cmds = 0
    /\ oplog = <<>>
    /\ \E s \in NreadStreams, e \in BOOLEAN :
           sock = [c \in Conns |-> IF c = 1 THEN [bytes |-> s, eof |-> e] ELSE NoSock]
    /\ udp = NoUdp

NextNread ==
    \/ \E c \in Conns : ReadNetwork(c)
    \/ \E c \in Conns : ReadEof(c)
    \/ \E c \in Conns : ReadCommand(c)
    \/ \E c \in Conns : NreadBuffered(c)
    \/ \E c \in Conns : NreadSocket(c)
    \/ \E c \in Conns : NreadEof(c)
    \/ \E c \in Conns : NreadComplete(c)
    \/ \E c \in Conns : Transmit(c)
    \/ \E c \in Conns : Closing(c)

SpecNread == InitNread /\ [][NextNread]_vars

\* the bytes of the connection that no command has used yet: those of the
\* item being received, those in the read buffer, those in the socket
Unused(cn, so) == cn.ritem \o cn.rbuf \o so.bytes

\* the items of the index and their order are as they were
IndexUnchanged ==
    /\ hash' = hash
    /\ lru' = lru
    /\ \A id \in Range(hash) : items'[id] = items[id]

\* conn_nread takes bytes for the item: from the read buffer while it holds
\* any, from the socket otherwise, never more than the value and two bytes
NreadTakes(c) ==
    /\ Unused(conn'[c], sock'[c]) = Unused(conn[c], sock[c])
    /\ Len(conn'[c].ritem) > Len(conn[c].ritem)
    /\ Len(conn'[c].ritem) <= items[conn[c].item].cap + 2
    /\ conn[c].rbuf # <<>> => sock'[c] = sock[c]
    /\ conn[c].rbuf = <<>> => conn'[c].rbuf = <<>>
    /\ IndexUnchanged

\* complete_nread has the value and the two bytes after it
NreadEnds(c) ==
    LET it   == conn[c].item
        vlen == items[it].cap
        key  == conn[c].update_key
    IN  /\ Len(conn[c].ritem) = vlen + 2
        /\ conn'[c].rbuf = conn[c].rbuf
        /\ sock'[c] = sock[c]
        /\ conn'[c].item = 0
        /\ IF SubSeq(conn[c].ritem, vlen + 1, vlen + 2) = CRLF
           THEN /\ ReplyNext(c) = R_STORED \o CRLF
                /\ KeyView(StoreNext, key).it = it
                /\ KeyView(StoreNext, key).live
                /\ KeyView(StoreNext, key).data = SubSeq(conn[c].ritem, 1, vlen)
           ELSE /\ ReplyNext(c) = R_BAD_CHUNK \o CRLF
                /\ IndexUnchanged
                /\ ~items'[it].used

\* C17: conn_nread takes exactly the value's length plus two bytes, from the
\* read buffer first and then from the socket. The item becomes visible only
\* when the two bytes are \r\n; otherwise the reply is CLIENT_ERROR bad data
\* chunk and the store is as it was. While the value is being received, and
\* when the client closes before the end of it, the item is not visible.
C17_Nread ==
    [][\A c \in Conns :
          /\ conn'[c].state = "conn_nread" =>
                /\ ~items'[conn'[c].item].linked
                /\ conn'[c].item \notin Range(hash')
                /\ Len(conn'[c].ritem) + conn'[c].rtodo = items'[conn'[c].item].cap + 2
          /\ conn[c].state = "conn_nread" =>
                \/ conn'[c] = conn[c]
                \/ conn'[c].state = "conn_nread" /\ NreadTakes(c)
                \/ conn'[c].state = "conn_write" /\ NreadEnds(c)
                \/ /\ conn'[c].state = "conn_closing"
                   /\ conn[c].rbuf = <<>> /\ EndOfStream(c)
                   /\ conn'[c].item = conn[c].item
                   /\ StoreNext = Store
          /\ conn[c].state = "conn_closing" /\ conn[c].item # 0 =>
                \/ conn'[c] = conn[c]
                \/ /\ conn'[c].state = "closed"
                   /\ IndexUnchanged
                   /\ ~items'[conn[c].item].used
      ]_vars

\* a set whose value is followed by two wrong bytes has been answered: the
\* item of the set before it is still the one under the key
C17_Witness ==
    \E c \in Conns :
        /\ Reply(c) = R_BAD_CHUNK \o CRLF
        /\ hist[c].data = <<"7", "7">>
        /\ hist[c].line = <<"\n", "\r">>
        /\ KeyView(Store, K_a).live
        /\ KeyView(Store, K_a).data = <<"5">>
        /\ Unused(conn[c], sock[c]) = GetA

----------------------------------------------------------------------------
(* Discarding the value of a set that found no item.                       *)

InitSwallow ==
    /\ started = StartOfTime
    /\ time0 = 2
    /\ current_time = U32(2)
    /\ oldest_live = U32(0)
    /\ items = [id \in ItemIds |-> NoItem]
    /\ hash = <<>>
    /\ lru = <<>>
    /\ todelete = <<>>
    /\ deltotal = DELTOTAL
    /\ conn = [c \in Conns |-> NewConn]
    /\ hist = [c \in Conns |-> NoHist]
    /\ watch = [c \in Conns |-> NoWatch]
    /\ rt = NoRt
    /\ arith_cmds = 0
    /\ oplog = <<>>
    /\ \E s \in SwallowStreams, e \in BOOLEAN :
           sock = [c \in Conns |-> IF c = 1 THEN [bytes |-> s, eof |-> e] ELSE NoSock]
    /\ udp = NoUdp

NextSwallow ==
    \/ \E c \in Conns : ReadNetwork(c)
    \/ \E c \in Conns : ReadEof(c)
    \/ \E c \in Conns : ReadCommand(c)
    \/ \E c \in Conns : NreadBuffered(c)
    \/ \E c \in Conns : NreadSocket(c)
    \/ \E c \in Conns : NreadComplete(c)
    \/ \E c \in Conns : SwallowDone(c)
    \/ \E c \in Conns : SwallowBuffered(c)
    \/ \E c \in Conns : SwallowSocket(c)
    \/ \E c \in Conns : SwallowEof(c)
    \/ \E c \in Conns : Transmit(c)
    \/ \E c \in Conns : Closing(c)

SpecSwallow == InitSwallow /\ [][NextSwallow]_vars

\* the length that the line of a set, add or replace gives, as a long
VlenOf(line) ==
    strtol(CStr(ParsedLine(line).buf, ParsedLine(line).tokens[5].value)).val

\* the reply that no item could be had
NoItemReply(w) == w \in {R_TOO_LARGE \o CRLF, R_OOM \o CRLF}

\* C18: a set, add or replace for which no item can be allocated is answered
\* SERVER_ERROR (out of memory, or object too large); conn_swallow then
\* discards exactly the value's length plus two bytes, from the read buffer
\* and from the socket, and the connection reads again: the line after those
\* bytes is the next command, and no byte of them is parsed.
C18_Swallow ==
    [][\A c \in Conns :
          /\ conn[c].state = "conn_read" /\ NoItemReply(conn'[c].wbuf) =>
                /\ conn'[c].state = "conn_write"
                /\ conn'[c].write_and_go = "conn_swallow"
                /\ FromInt(conn'[c].sbytes, LongLimbs)
                       = AddL(VlenOf(hist'[c].line), FromNat(2, LongLimbs), 0)
                /\ conn'[c].item = 0
          /\ conn[c].state = "conn_write" /\ NoItemReply(conn[c].wbuf) =>
                \/ conn'[c] = conn[c]
                \/ /\ conn'[c].state = "conn_swallow"
                   /\ conn'[c].sbytes = conn[c].sbytes
                   /\ conn'[c].rbuf = conn[c].rbuf
                   /\ sock'[c] = sock[c]
          /\ conn[c].state = "conn_swallow" =>
                \/ conn'[c] = conn[c]
                \/ /\ conn'[c].state = "conn_swallow"
                   /\ conn'[c].sbytes >= 0
                   /\ conn'[c].sbytes < conn[c].sbytes
                   /\ Len(Unused(conn[c], sock[c])) >= conn[c].sbytes - conn'[c].sbytes
                   /\ Unused(conn'[c], sock'[c])
                          = SubSeq(Unused(conn[c], sock[c]),
                                   conn[c].sbytes - conn'[c].sbytes + 1,
                                   Len(Unused(conn[c], sock[c])))
                   /\ StoreNext = Store
                \/ /\ conn'[c].state = "conn_read"
                   /\ conn[c].sbytes = 0
                   /\ Unused(conn'[c], sock'[c]) = Unused(conn[c], sock[c])
                   /\ StoreNext = Store
                \/ /\ conn'[c].state = "conn_closing"
                   /\ conn[c].rbuf = <<>> /\ EndOfStream(c)
                   /\ StoreNext = Store
      ]_vars

----------------------------------------------------------------------------
(* The items of a get response.                                            *)

InitMwrite ==
    /\ started = StartOfTime
    /\ time0 = 2
    /\ current_time = U32(2)
    /\ oldest_live = U32(0)
    /\ items = [id \in ItemIds |-> NoItem]
    /\ hash = <<>>
    /\ lru = <<>>
    /\ todelete = <<>>
    /\ deltotal = DELTOTAL
    /\ conn = [c \in Conns |-> NewConn]
    /\ hist = [c \in Conns |-> NoHist]
    /\ watch = [c \in Conns |-> NoWatch]
    /\ rt = NoRt
    /\ arith_cmds = 0
    /\ oplog = <<>>
    /\ \E s \in MwriteStreams :
           sock = [c \in Conns |-> IF c = 1 THEN [bytes |-> s, eof |-> FALSE] ELSE NoSock]
    /\ udp = NoUdp

\* the first connection is the client of the get; another connection
\* deletes the key meanwhile
NextMwrite ==
    \/ ReadNetwork(1)
    \/ ReadCommand(1)
    \/ NreadBuffered(1)
    \/ NreadSocket(1)
    \/ NreadComplete(1)
    \/ TransmitSome(1)
    \/ TransmitComplete(1)
    \/ \E c \in Conns \ {1} : CmdDelete(c, {Join(<<W_delete, K_a>>)})
    \/ \E c \in Conns \ {1} : Transmit(c)

SpecMwrite == InitMwrite /\ [][NextMwrite]_vars

\* C19: the items a get hits stay referenced by the connection while the
\* response is written, over every partial write, also when another
\* connection deletes them meanwhile; the list of items changes only when
\* the last byte is out, and then each of its references is released once
\* and the connection reads again.
C19_GetReferences ==
    [][\A c \in Conns :
          /\ conn'[c].state = "conn_mwrite" =>
                \A id \in Range(conn'[c].ilist) :
                    /\ items'[id].used
                    /\ items'[id].refcount >= Holders(id)'
          /\ conn[c].state = "conn_mwrite" =>
                \/ conn'[c] = conn[c]
                \/ /\ conn'[c].state = "conn_mwrite"
                   /\ conn'[c].ilist = conn[c].ilist
                   /\ conn'[c].sent > conn[c].sent
                \/ /\ conn'[c].state = "conn_read"
                   /\ conn[c].sent = Len(Reply(c))
                   /\ conn'[c].ilist = <<>>
                   /\ \A id \in ItemIds :
                         IF items'[id].used
                         THEN items'[id].refcount =
                                 items[id].refcount - Count(conn[c].ilist, id)
                         ELSE items[id].refcount = Count(conn[c].ilist, id)
      ]_vars

\* a get that hit the key twice has been answered whole; another connection
\* deleted the item before the last byte was out, and the storage went when
\* the response released it
C19_Witness ==
    /\ conn[1].state = "conn_read"
    /\ hist[1].op = "sent"
    /\ Len(hist[1].hits) = 2
    /\ hist[1].pre = NoView
    /\ \A id \in ItemIds : ~items[id].used

----------------------------------------------------------------------------
(* Closing a connection.                                                   *)

InitClose ==
    /\ started = StartOfTime
    /\ time0 = 2
    /\ current_time = U32(2)
    /\ oldest_live = U32(0)
    /\ items = [id \in ItemIds |-> NoItem]
    /\ hash = <<>>
    /\ lru = <<>>
    /\ todelete = <<>>
    /\ deltotal = DELTOTAL
    /\ conn = [c \in Conns |-> NewConn]
    /\ hist = [c \in Conns |-> NoHist]
    /\ watch = [c \in Conns |-> NoWatch]
    /\ rt = NoRt
    /\ arith_cmds = 0
    /\ oplog = <<>>
    /\ \E s \in CloseStreams :
           sock = [c \in Conns |-> IF c = 1 THEN [bytes |-> s, eof |-> TRUE] ELSE NoSock]
    /\ udp = NoUdp

NextClose ==
    \/ ReadNetwork(1)
    \/ ReadEof(1)
    \/ ReadCommand(1)
    \/ NreadBuffered(1)
    \/ NreadSocket(1)
    \/ NreadEof(1)
    \/ NreadComplete(1)
    \/ TransmitSome(1)
    \/ TransmitComplete(1)
    \/ TransmitError(1)
    \/ Closing(1)
    \/ \E c \in Conns \ {1} : CmdDelete(c, {Join(<<W_delete, K_a>>)})
    \/ \E c \in Conns \ {1} : Transmit(c)

SpecClose == InitClose /\ [][NextClose]_vars

\* C20: the step that closes a connection, whether it was receiving a
\* value, transmitting a response or reading, releases the item being
\* received and every item still to transmit, each once, and nothing else:
\* the connection is left closed without a reference, each count is lower
\* by the number of references the connection held, an item whose last
\* reference that was is freed, and the index is as before.
C20_CloseReleases ==
    [][\A c \in Conns :
          /\ conn[c].state = "conn_closing" /\ conn'[c] # conn[c] =>
                /\ conn'[c].state = "closed"
                /\ conn'[c].item = 0
                /\ conn'[c].ilist = <<>>
                /\ hash' = hash
                /\ \A id \in ItemIds :
                      IF items'[id].used
                      THEN items'[id].refcount =
                              items[id].refcount - ConnHolds(conn[c], id)
                      ELSE items[id].refcount = ConnHolds(conn[c], id)
          /\ conn'[c].state = "closed" =>
                \A id \in ItemIds :
                    /\ ConnHolds(conn'[c], id) = 0
                    /\ items'[id].used => items'[id].refcount = Holders(id)'
      ]_vars

\* the connection was closed while it transmitted a response with two
\* entries of an item that another connection had deleted: the close freed it
C20_Witness ==
    /\ conn[1].state = "closed"
    /\ hist[1].op = "close"
    /\ hist[1].held = 2
    /\ \A id \in ItemIds : ~items[id].used

----------------------------------------------------------------------------
(* One run of drive_machine.                                               *)

\* settings.reqs_per_event
reqs_per_event == 1

\* the event of the connection fires and event_handler calls drive_machine:
\* stop is false and nreqs is settings.reqs_per_event; ncmds counts the
\* commands of this run
event_handler(c) ==
    /\ conn[c].stop
    /\ \/ conn[c].state = "conn_read" /\ sock[c].bytes # <<>>
       \/ conn[c].state \in {"conn_write", "conn_mwrite"}
    /\ conn' = [conn EXCEPT ![c].stop = FALSE, ![c].nreqs = reqs_per_event,
                            ![c].ncmds = 0]
    /\ UNCHANGED <<sock, udp, oplog, started, time0, current_time, oldest_live, items,
                   hash, lru, todelete, deltotal, hist, watch, rt, arith_cmds>>

\* drive_machine, conn_read: try_read_command finds a line, runs the command
\* and the loop continues
DriveCommand(c) ==
    /\ ~conn[c].stop
    /\ Idle(c)
    /\ LineEnd(conn[c].rbuf) # 0
    /\ \E grown \in IF Len(todelete) >= deltotal THEN BOOLEAN ELSE {TRUE} :
        LET el   == LineEnd(conn[c].rbuf)
            line == CommandLine(conn[c].rbuf, el)
            tk   == ParsedLine(line)
            r    == run_command(Store, conn[c], Queue, tk, grown)
        IN  /\ tk.branch \in ByteSteps
            /\ StoreAfter(r.st)
            /\ conn' = [conn EXCEPT ![c] =
                           [r.cn EXCEPT !.rbuf = SubSeq(conn[c].rbuf, el + 1,
                                                        Len(conn[c].rbuf)),
                                        !.ncmds = @ + 1]]
            /\ todelete' = r.q.todelete
            /\ deltotal' = r.q.deltotal
            /\ hist' = [hist EXCEPT ![c] = [NoHist EXCEPT !.op = tk.branch, !.line = line]]
    /\ UNCHANGED <<sock, udp, oplog, started, time0, current_time, oldest_live, watch,
                   rt, arith_cmds>>

\* drive_machine, conn_read: no line in the buffer; with nreqs left
\* try_read_network reads what has arrived, nreqs goes down and the loop
\* continues
DriveRead(c) ==
    /\ ~conn[c].stop
    /\ Idle(c)
    /\ LineEnd(conn[c].rbuf) = 0
    /\ conn[c].nreqs # 0
    /\ \E n \in 1..Len(sock[c].bytes) :
        /\ conn' = [conn EXCEPT ![c].rbuf = @ \o SubSeq(sock[c].bytes, 1, n),
                                ![c].nreqs = @ - 1]
        /\ sock' = [sock EXCEPT ![c].bytes = SubSeq(@, n + 1, Len(@))]
    /\ UNCHANGED <<udp, oplog, started, time0, current_time, oldest_live, items,
                   hash, lru, todelete, deltotal, hist, watch, rt, arith_cmds>>

\* drive_machine, conn_read: no line in the buffer and nreqs used up or
\* nothing to read: update_event and stop
DriveYield(c) ==
    /\ ~conn[c].stop
    /\ Idle(c)
    /\ LineEnd(conn[c].rbuf) = 0
    /\ conn' = [conn EXCEPT ![c].stop = TRUE]
    /\ UNCHANGED <<sock, udp, oplog, started, time0, current_time, oldest_live, items,
                   hash, lru, todelete, deltotal, hist, watch, rt, arith_cmds>>

\* drive_machine, conn_write and conn_mwrite: TRANSMIT_INCOMPLETE, the loop
\* continues
DriveTransmitSome(c) == ~conn[c].stop /\ TransmitSome(c)

\* drive_machine, conn_write and conn_mwrite: TRANSMIT_COMPLETE, the loop
\* continues in the next state
DriveTransmitComplete(c) == ~conn[c].stop /\ TransmitComplete(c)

\* drive_machine, conn_write and conn_mwrite: sendmsg would block,
\* TRANSMIT_SOFT_ERROR, stop
DriveSoftError(c) ==
    /\ ~conn[c].stop
    /\ conn[c].state \in {"conn_write", "conn_mwrite"}
    /\ conn[c].sent < Len(Reply(c))
    /\ conn' = [conn EXCEPT ![c].stop = TRUE]
    /\ UNCHANGED <<sock, udp, oplog, started, time0, current_time, oldest_live, items,
                   hash, lru, todelete, deltotal, hist, watch, rt, arith_cmds>>

InitDrive ==
    /\ started = StartOfTime
    /\ time0 = 2
    /\ current_time = U32(2)
    /\ oldest_live = U32(0)
    /\ items = [id \in ItemIds |-> NoItem]
    /\ hash = <<>>
    /\ lru = <<>>
    /\ todelete = <<>>
    /\ deltotal = DELTOTAL
    /\ conn = [c \in Conns |-> NewConn]
    /\ hist = [c \in Conns |-> NoHist]
    /\ watch = [c \in Conns |-> NoWatch]
    /\ rt = NoRt
    /\ arith_cmds = 0
    /\ oplog = <<>>
    /\ \E s \in PipelineStreams :
           sock = [c \in Conns |-> IF c = 1 THEN [bytes |-> s, eof |-> FALSE] ELSE NoSock]
    /\ udp = NoUdp

NextDrive ==
    \/ event_handler(1)
    \/ DriveCommand(1)
    \/ DriveRead(1)
    \/ DriveYield(1)
    \/ DriveTransmitSome(1)
    \/ DriveTransmitComplete(1)
    \/ DriveSoftError(1)

SpecDrive == InitDrive /\ [][NextDrive]_vars

\* C21: in one run of drive_machine a connection runs at most
\* reqs_per_event commands, however many whole lines the client has sent
\* ahead.
C21_ReqsPerEvent ==
    \A c \in Conns : conn[c].ncmds <= reqs_per_event

----------------------------------------------------------------------------
(* The listener and the limit of open connections.                         *)

\* connection 1 is listen_conn, the others are the descriptors the process
\* may still open
Listener == 1

\* the threads dispatch_conn_new hands connections to
Workers == {1}

\* drive_machine, conn_listening, on the listen thread while the listener is
\* armed: accept gives a new connection to a worker, or fails with EMFILE
\* when no descriptor is left and the listener stops accepting
Accept(l) ==
    /\ conn[l].state = "conn_listening"
    /\ conn[l].ev_flags = "EV_READ"
    /\ IF \E c \in Conns : conn[c].state = "closed"
       THEN \E c \in Conns, t \in Workers, s \in AcceptStreams :
               /\ conn[c].state = "closed"
               /\ conn' = [conn EXCEPT ![c] = [NewConn EXCEPT !.thread = t]]
               /\ sock' = [sock EXCEPT ![c] = [bytes |-> s, eof |-> TRUE]]
       ELSE /\ conn' = [conn EXCEPT ![l] = accept_new_conns(@, FALSE, conn[l].thread)]
            /\ UNCHANGED sock
    /\ hist' = [hist EXCEPT ![l] = [NoHist EXCEPT !.op = "accept"]]
    /\ UNCHANGED <<udp, oplog, started, time0, current_time, oldest_live, items,
                   hash, lru, todelete, deltotal, watch, rt, arith_cmds>>

InitListen ==
    /\ started = StartOfTime
    /\ time0 = 2
    /\ current_time = U32(2)
    /\ oldest_live = U32(0)
    /\ items = [id \in ItemIds |-> NoItem]
    /\ hash = <<>>
    /\ lru = <<>>
    /\ todelete = <<>>
    /\ deltotal = DELTOTAL
    /\ conn = [c \in Conns |->
                  IF c = Listener
                  THEN [NewConn EXCEPT !.state = "conn_listening", !.thread = ListenThread]
                  ELSE [NewConn EXCEPT !.state = "closed"]]
    /\ hist = [c \in Conns |-> NoHist]
    /\ watch = [c \in Conns |-> NoWatch]
    /\ rt = NoRt
    /\ arith_cmds = 0
    /\ oplog = <<>>
    /\ sock = [c \in Conns |-> NoSock]
    /\ udp = NoUdp

NextListen ==
    \/ Accept(Listener)
    \/ \E c \in Conns : ReadNetwork(c)
    \/ \E c \in Conns : ReadCommand(c)
    \/ \E c \in Conns : TransmitSome(c)
    \/ \E c \in Conns : TransmitComplete(c)
    \/ \E c \in Conns : ReadEof(c)
    \/ \E c \in Conns : Closing(c)

SpecListen == InitListen /\ [][NextListen]_vars

\* C22: after accept failed with EMFILE and the listener stopped accepting,
\* the close of a client connection, on whichever thread, arms the
\* listener again.
C22_ListenerRearmed ==
    [][\A c \in Conns :
          conn[c].state = "conn_closing" /\ conn'[c].state = "closed" =>
              conn'[Listener].ev_flags = "EV_READ"]_vars

----------------------------------------------------------------------------
(* A response that fails to go out.                                        *)

\* process_get_command, assert(c->wbytes == 0), in a build that keeps its
\* assertions: the write buffer still holds bytes of a response and the
\* process aborts
GetAssert(c) ==
    /\ Idle(c)
    /\ LineEnd(conn[c].rbuf) # 0
    /\ ParsedLine(CommandLine(conn[c].rbuf, LineEnd(conn[c].rbuf))).branch = "get"
    /\ conn[c].wbuf # <<>>
    /\ conn' = [d \in Conns |-> [conn[d] EXCEPT !.state = "aborted"]]
    /\ UNCHANGED <<sock, udp, oplog, started, time0, current_time, oldest_live, items,
                   hash, lru, todelete, deltotal, hist, watch, rt, arith_cmds>>

UdpErrorSeqs(n) == UNION {[1..k -> UdpErrorDatagrams] : k \in 1..n}

InitUdpError ==
    /\ started = StartOfTime
    /\ time0 = 2
    /\ current_time = U32(2)
    /\ oldest_live = U32(0)
    /\ items = [id \in ItemIds |-> NoItem]
    /\ hash = <<>>
    /\ lru = <<>>
    /\ todelete = <<>>
    /\ deltotal = DELTOTAL
    /\ conn = [c \in Conns |-> [NewConn EXCEPT !.udp = (c = 1)]]
    /\ hist = [c \in Conns |-> NoHist]
    /\ watch = [c \in Conns |-> NoWatch]
    /\ rt = NoRt
    /\ arith_cmds = 0
    /\ oplog = <<>>
    /\ \E ds \in UdpErrorSeqs(MaxDatagrams) :
           sock = [c \in Conns |-> IF c = 1 THEN [bytes |-> ds, eof |-> FALSE]
                                   ELSE [bytes |-> GetA, eof |-> FALSE]]
    /\ udp = NoUdp

NextUdpError ==
    \/ \E c \in Conns : ReadUdp(c)
    \/ \E c \in Conns : ReadNetwork(c)
    \/ \E c \in Conns : ReadCommand(c)
    \/ \E c \in Conns : GetAssert(c)
    \/ \E c \in Conns : TransmitSome(c)
    \/ \E c \in Conns : TransmitComplete(c)
    \/ \E c \in Conns : TransmitError(c)
    \/ \E c \in Conns : Closing(c)

SpecUdpError == InitUdpError /\ [][NextUdpError]_vars

\* C23: a transmit that fails with an error other than would-block takes a
\* UDP connection to conn_read, never to conn_closing, and the connection
\* then serves the next datagram; it takes a stream connection to
\* conn_closing.
C23_TransmitError ==
    [][\A c \in Conns :
          /\ /\ conn[c].state \in {"conn_write", "conn_mwrite"}
             /\ conn'[c].state \notin {"conn_write", "conn_mwrite"}
             /\ conn[c].sent < Len(Reply(c))
             => conn'[c].state = IF conn[c].udp THEN "conn_read" ELSE "conn_closing"
          /\ conn[c].udp => conn'[c].state \notin {"conn_closing", "closed", "aborted"}
      ]_vars

----------------------------------------------------------------------------
(* The sweep of the delete queue.                                          *)

\* the commands of one run
MaxSweepOps == 4

\* connection 1 sets, deletes and adds; connection 2 gets
NextSweep ==
    \/ Begun < MaxSweepOps /\ CmdUpdate(1, SweepLines)
    \/ \E c \in Conns : Nread(c, ThreadValues, {CRLF})
    \/ Begun < MaxSweepOps /\ CmdDelete(1, SweepLines)
    \/ \E c \in Conns \ {1} : Begun < MaxSweepOps /\ CmdGet(c, SweepLines)
    \/ \E c \in Conns : Respond(c)
    \/ Tick
    \/ clock_handler
    \/ delete_handler

\* the delete timer is set again by every run of delete_handler
SpecSweep == Init /\ [][NextSweep]_vars /\ WF_vars(delete_handler)

\* the queued items whose delete window has passed
WindowOver == {id \in Range(todelete) : item_delete_lock_over(items[id])}

\* the step takes items from the delete queue
QueueShrinks == todelete' # todelete /\ Len(todelete') <= Len(todelete)

\* C25: a run of the sweeper takes from the delete queue exactly the items
\* whose window has passed, unlinks each and releases the reference of the
\* queue once (and with the unlink that of the index), and keeps the others
\* in their order; nothing else takes an item from the queue. An item whose
\* window has passed is removed in the end, its key is then no longer
\* delete-locked unless a later delete of the key is still in the queue, and
\* an add of a key with no item is stored.
C25_Sweep ==
    /\ [][/\ QueueShrinks =>
               /\ todelete' = SelectSeq(todelete, LAMBDA id : id \notin WindowOver)
               /\ \A id \in WindowOver :
                     /\ Count(hash', id) = 0
                     /\ ~items'[id].linked
                     /\ ~items'[id].deleted
                     /\ LET released == 1 + (IF items[id].linked THEN 1 ELSE 0)
                        IN  IF items'[id].used
                            THEN items'[id].refcount = items[id].refcount - released
                            ELSE items[id].refcount = released
                     /\ (\A o \in Range(todelete') : items'[o].key # items[id].key)
                           => ~KeyView(StoreNext, items[id].key).locked
               /\ \A id \in ItemIds \ WindowOver : items'[id] = items[id]
          /\ \A c \in Conns :
                Completes(c, NREAD_ADD) /\ KeyView(Store, hist'[c].key) = NoView
                    => ReplyNext(c) = R_STORED \o CRLF
         ]_vars
    /\ \A id \in ItemIds :
          (id \in Range(todelete) /\ item_delete_lock_over(items[id]))
              ~> (id \notin Range(todelete))

\* key a and key b were deleted with a window; the sweeper has taken the item
\* of key a from the queue and from the index, and has kept the item of
\* key b, whose window is open
C25_Witness ==
    /\ Len(todelete) = 1
    /\ items[todelete[1]].key = K_b
    /\ items[todelete[1]].deleted
    /\ ~item_delete_lock_over(items[todelete[1]])
    /\ \E i \in DOMAIN oplog :
          /\ oplog[i].line = Join(<<W_delete, K_a, <<"1">> >>)
          /\ oplog[i].reply = R_DELETED \o CRLF
    /\ KeyView(Store, K_a) = NoView
    /\ \A id \in ItemIds : items[id].used => items[id].key = K_b

----------------------------------------------------------------------------
(* incr and decr on an item that a response refers to.                     *)

\* the items another connection than c receives or transmits
PinnedByOthers(c) ==
    {id \in ItemIds : \E d \in Conns \ {c} : ConnHolds(conn[d], id) > 0}

----------------------------------------------------------------------------
(* Commands that run out of memory.                                        *)

NextNoMem ==
    \/ CmdUpdate(1, NoMemLines)
    \/ \E c \in Conns : Nread(c, ThreadValues, {CRLF})
    \/ CmdGet(1, NoMemLines)
    \/ CmdGetNoMem(1, NoMemLines)
    \/ GetAgain(1)
    \/ GetAgainNoMem(1)
    \/ CmdArith(1, NoMemLines)
    \/ CmdDelete(1, NoMemLines)
    \/ \E c \in Conns : Transmit(c)

SpecNoMem == Init /\ [][NextNoMem]_vars

S_SERVER_ERROR == <<"S", "E", "R", "V", "E", "R", "_", "E", "R", "R", "O", "R">>

\* the command that connection c has just run met a failed allocation
NoMemoryFor(c) == hist'[c] # hist[c] /\ hist'[c].nomem

\* C27: when an allocation fails inside a command (the list of items of a
\* get, the new item of an incr, the delete queue), the reply is a
\* SERVER_ERROR line, the index and every item are as before the command,
\* no reference count has gone up, and the handler has returned: the
\* connection writes its reply and holds no item.
C27_AllocationFailure ==
    [][\A c \in Conns :
          NoMemoryFor(c) =>
              /\ Len(ReplyNext(c)) >= Len(S_SERVER_ERROR)
              /\ SubSeq(ReplyNext(c), 1, Len(S_SERVER_ERROR)) = S_SERVER_ERROR
              /\ hash' = hash
              /\ todelete' = todelete
              /\ \A id \in ItemIds :
                    /\ items'[id].refcount <= items[id].refcount
                    /\ [items'[id] EXCEPT !.refcount = 0] = [items[id] EXCEPT !.refcount = 0]
              /\ conn'[c].state = "conn_write"
              /\ conn'[c].get = NoGet
              /\ conn'[c].ilist = <<>>
      ]_vars

----------------------------------------------------------------------------
(* A response on a stream socket, in partial writes.                       *)

RECURSIVE FragsBytes(_)
\* the bytes of the add_iov calls of a response, one after the other
FragsBytes(frags) ==
    IF frags = <<>> THEN <<>> ELSE Head(frags).b \o FragsBytes(Tail(frags))

\* the message c->msgcurr points at when transmit has looked at it
transmit_msgcurr(t) ==
    IF t.msgcurr < Len(t.c.msglist) /\ t.c.msglist[t.msgcurr + 1].msg_iovlen = 0
    THEN t.msgcurr + 1
    ELSE t.msgcurr

\* the bytes sendmsg is given with message k
MsgBytes(c, k) == EntryBytes(MsgIov(c, k))

\* an entry of the scatter list behind msg_iov: transmit does not read it
\* again
WrittenEntry == [h |-> <<>>, b |-> <<>>, len |-> 0]

\* transmit that leaves an entry written in part as it was
RECURSIVE transmit_written_whole(_, _, _)
transmit_written_whole(c, k, res) ==
    LET m == c.msglist[k]
        e == c.iov[m.first + 1]
    IN  IF m.msg_iovlen > 0 /\ res >= e.len
        THEN transmit_written_whole([c EXCEPT !.msglist[k].msg_iovlen = @ - 1,
                                              !.msglist[k].first = @ + 1,
                                              !.iov[m.first + 1] = WrittenEntry],
                                    k, res - e.len)
        ELSE c

RECURSIVE transmit_written(_, _, _)
\* transmit, res > 0: the entries of message k that are written go from the
\* list, and an entry written in part keeps the rest
transmit_written(c, k, res) ==
    LET m == c.msglist[k]
        e == c.iov[m.first + 1]
    IN  IF m.msg_iovlen > 0 /\ res >= e.len
        THEN transmit_written([c EXCEPT !.msglist[k].msg_iovlen = @ - 1,
                                        !.msglist[k].first = @ + 1,
                                        !.iov[m.first + 1] = WrittenEntry],
                              k, res - e.len)
        ELSE IF res > 0
        THEN [c EXCEPT !.iov[m.first + 1] =
                           [e EXCEPT !.b = SubSeq(e.b, res + 1, Len(e.b)),
                                     !.len = e.len - res]]
        ELSE c

\* int transmit(conn *c) on a stream socket: sendmsg writes res bytes of the
\* message, or none when the socket would block (res = 0 here)
transmit(t, res) ==
    Only({IF k < Len(t.c.msglist)
          THEN IF res > 0
               THEN [t EXCEPT !.msgcurr = k,
                              !.c = transmit_written(t.c, k + 1, res),
                              !.wire = @ \o SubSeq(MsgBytes(t.c, k + 1), 1, res),
                              !.writes = @ + 1,
                              !.ret = "TRANSMIT_INCOMPLETE"]
               ELSE [t EXCEPT !.msgcurr = k, !.blocked = TRUE,
                              !.ret = "TRANSMIT_SOFT_ERROR"]
          ELSE [t EXCEPT !.msgcurr = k, !.ret = "TRANSMIT_COMPLETE"] :
             k \in {transmit_msgcurr(t)}})

\* the responses with room in the scatter list, built as process_command,
\* out_string and process_get_command build them
InitStream ==
    /\ started = StartOfTime
    /\ time0 = 2
    /\ current_time = U32(2)
    /\ oldest_live = U32(0)
    /\ items = [id \in ItemIds |-> NoItem]
    /\ hash = <<>>
    /\ lru = <<>>
    /\ todelete = <<>>
    /\ deltotal = DELTOTAL
    /\ conn = [c \in Conns |-> NewConn]
    /\ hist = [c \in Conns |-> NoHist]
    /\ watch = [c \in Conns |-> NoWatch]
    /\ rt = NoRt
    /\ arith_cmds = 0
    /\ oplog = <<>>
    /\ sock = [c \in Conns |-> NoSock]
    /\ \E frags \in UdpResponses :
           udp = [phase |-> "stream", c |-> TcpResponse(frags, 3 * IovSize).c,
                  frags |-> frags, msgcurr |-> 0, wire |-> <<>>, writes |-> 0,
                  blocked |-> FALSE, ret |-> ""]

\* drive_machine, conn_write and conn_mwrite: one call of transmit, in which
\* the kernel takes some of the bytes of the message
StreamWrite ==
    /\ udp.phase = "stream"
    /\ \E res \in 1..Len(FragsBytes(udp.frags)) :
          /\ transmit_msgcurr(udp) < Len(udp.c.msglist)
          /\ res <= Len(MsgBytes(udp.c, transmit_msgcurr(udp) + 1))
          /\ udp' = transmit(udp, res)
    /\ UdpUnchanged

\* one call of transmit in which the socket would block
StreamWouldBlock ==
    /\ udp.phase = "stream"
    /\ transmit_msgcurr(udp) < Len(udp.c.msglist)
    /\ udp' = transmit(udp, 0)
    /\ UdpUnchanged

\* one call of transmit that finds no message left
StreamComplete ==
    /\ udp.phase = "stream"
    /\ transmit_msgcurr(udp) >= Len(udp.c.msglist)
    /\ udp' = [transmit(udp, 0) EXCEPT !.phase = "sent"]
    /\ UdpUnchanged

NextStream == StreamWrite \/ StreamWouldBlock \/ StreamComplete

SpecStream == InitStream /\ [][NextStream]_vars

\* C28: however sendmsg splits the response into partial writes and
\* would-block results, the bytes on the stream are at every moment the
\* first bytes of the response's fragments in their order, and when transmit
\* returns TRANSMIT_COMPLETE they are all of them, each once.
C28_StreamBytes ==
    udp.phase \in {"stream", "sent"} =>
        LET all == FragsBytes(udp.frags)
        IN  /\ Len(udp.wire) <= Len(all)
            /\ udp.wire = SubSeq(all, 1, Len(udp.wire))
            /\ udp.ret = "TRANSMIT_COMPLETE" => udp.wire = all
            /\ udp.phase = "sent" <=> udp.ret = "TRANSMIT_COMPLETE"

\* a response of two messages has gone out in several partial writes, one
\* of which ended inside a fragment, and the socket blocked on the way
C28_Witness ==
    /\ udp.phase = "sent"
    /\ Len(udp.c.msglist) = 2
    /\ udp.writes >= 3
    /\ udp.writes < Len(udp.c.iov)
    /\ udp.blocked
    /\ udp.wire = FragsBytes(udp.frags)

----------------------------------------------------------------------------
(* The end of a get handler.                                               *)

\* C29: process_get_command always returns: when an append to the scatter
\* list fails, or the list of items cannot grow, the handler that has
\* stopped looking up keys is no longer inside its loop, and a connection
\* whose handler stopped does not look a key up again.
C29_GetReturns ==
    [][\A c \in Conns :
          /\ Completes(c, "get") => conn'[c].get.pos = 0
          /\ conn[c].get.pos # 0 /\ conn'[c] # conn[c] =>
                /\ conn'[c].get.pos = 0
                /\ \A id \in ItemIds : items'[id].refcount <= items[id].refcount
      ]_vars

----------------------------------------------------------------------------
(* References that nothing holds.                                          *)

\* the first connection sets and gets, the second deletes
NextLeak ==
    \/ CmdGet(1, LeakLines)
    \/ GetAgain(1)
    \/ CmdUpdate(1, LeakLines)
    \/ \E c \in Conns : Nread(c, ThreadValues, {CRLF})
    \/ CmdDelete(2, LeakLines)
    \/ \E c \in Conns : Transmit(c)

SpecLeak == Init /\ [][NextLeak]_vars

\* no connection is inside a handler
AllReturned == \A c \in Conns : conn[c].get.pos = 0 /\ ~conn[c].del.on

\* C30: no reference to an item is leaked: when every handler has returned,
\* the reference count of an item is the number of its holders (the index,
\* the connections that receive or transmit it, the delete queue), and a
\* connection that waits in conn_read for its next command holds no item,
\* also after a get that was cut short by a failed append to the scatter
\* list.
C30_NoLeak ==
    /\ AllReturned =>
          \A id \in ItemIds : items[id].used => items[id].refcount = Holders(id)
    /\ \A c \in Conns :
          Idle(c) => /\ conn[c].item = 0
                     /\ conn[c].ilist = <<>>

----------------------------------------------------------------------------
(* The items a queued response points into.                                *)

\* the first connection sets, gets and metagets, the second deletes
NextMeta ==
    \/ CmdMetaget(1, MetaLines)
    \/ CmdGet(1, MetaLines)
    \/ CmdUpdate(1, MetaLines)
    \/ \E c \in Conns : Nread(c, ThreadValues, {CRLF})
    \/ CmdDelete(2, MetaLines)
    \/ \E c \in Conns : Transmit(c)

SpecMeta == Init /\ [][NextMeta]_vars

\* the fragments of a queued response that point into items
ItemFrags(c) ==
    {i \in DOMAIN conn[c].iov : conn[c].iov[i].k \in {"key", "value"}}

\* C31: while a response is queued or being transmitted, every item whose
\* key or value bytes a fragment of the connection's scatter list points to
\* is still referenced by that connection (it is in the connection's list of
\* items to release after the transmit), for metaget responses as well as
\* for get responses.
C31_FragmentsPinned ==
    \A c \in Conns :
        conn[c].state \in {"conn_write", "conn_mwrite"} =>
            \A i \in ItemFrags(c) :
                /\ items[conn[c].iov[i].it].used
                /\ ConnHolds(conn[c], conn[c].iov[i].it) > 0

----------------------------------------------------------------------------
(* A UDP connection that closes.                                           *)

\* the requests of one datagram that quit, set and get
UdpQuitDatagrams ==
    {Datagram(10, 0, 1, W_quit \o CRLF),
     Datagram(7, 0, 1, Join(<<W_set, K_a, <<"0">>, <<"0">>, <<"1">> >>) \o CRLF
                           \o <<"5">> \o CRLF),
     Datagram(6, 0, 1, Join(<<W_get, K_a>>) \o CRLF)}

UdpQuitSeqs(n) == UNION {[1..k -> UdpQuitDatagrams] : k \in 1..n}

InitUdpQuit ==
    /\ started = StartOfTime
    /\ time0 = 2
    /\ current_time = U32(2)
    /\ oldest_live = U32(0)
    /\ items = [id \in ItemIds |-> NoItem]
    /\ hash = <<>>
    /\ lru = <<>>
    /\ todelete = <<>>
    /\ deltotal = DELTOTAL
    /\ conn = [c \in Conns |-> [NewConn EXCEPT !.udp = (c = 1)]]
    /\ hist = [c \in Conns |-> NoHist]
    /\ watch = [c \in Conns |-> NoWatch]
    /\ rt = NoRt
    /\ arith_cmds = 0
    /\ oplog = <<>>
    /\ \E ds \in UdpQuitSeqs(MaxQuitDatagrams) :
           sock = [c \in Conns |-> IF c = 1 THEN [bytes |-> ds, eof |-> FALSE]
                                   ELSE NoSock]
    /\ udp = NoUdp

NextUdpQuit ==
    \/ \E c \in Conns : ReadUdp(c)
    \/ \E c \in Conns : ReadCommand(c)
    \/ \E c \in Conns : NreadBuffered(c)
    \/ \E c \in Conns : NreadComplete(c)
    \/ \E c \in Conns : Transmit(c)
    \/ \E c \in Conns : Closing(c)

\* libevent calls the handler of a connection whose socket is readable, and
\* drive_machine goes on while it has not set stop: a datagram that waits is
\* read, a value and a response are carried to their end, and a connection
\* in conn_closing is cleaned up
SpecUdpQuit ==
    /\ InitUdpQuit
    /\ [][NextUdpQuit]_vars
    /\ \A c \in Conns : /\ WF_vars(ReadUdp(c))
                        /\ WF_vars(NreadBuffered(c))
                        /\ WF_vars(NreadComplete(c))
                        /\ WF_vars(Transmit(c))
                        /\ WF_vars(Closing(c))

\* C32: a UDP connection is never stuck in conn_closing: whatever datagrams
\* arrive, quit among them, the connection is eventually in conn_read again
\* and the datagrams that wait on the socket are read.
C32_UdpNeverStuck ==
    \A c \in Conns :
        conn[c].udp /\ conn[c].state = "conn_closing"
            ~> conn[c].state = "conn_read"

----------------------------------------------------------------------------
(* A reply and the end of a run of drive_machine.                          *)

\* the requests of one datagram that get and that delete, a request that
\* says it is one datagram of 2, and a header alone
UdpReplyDatagrams ==
    {Datagram(6, 0, 1, Join(<<W_get, K_a>>) \o CRLF),
     Datagram(258, 0, 1, Join(<<W_delete, K_a>>) \o CRLF),
     Datagram(259, 0, 2, Join(<<W_delete, K_a>>) \o CRLF),
     Datagram(8, 0, 1, <<>>)}

UdpReplySeqs(n) == UNION {[1..k -> UdpReplyDatagrams] : k \in 1..n}

\* libevent calls event_handler, and with it drive_machine, when the socket
\* is readable and the connection waits for that, or when the connection
\* waits until it can write
EventArrives(c) ==
    /\ conn[c].stop
    /\ \/ conn[c].ev_flags = "EV_READ" /\ sock[c].bytes # <<>>
       \/ conn[c].ev_flags = "EV_WRITE"
    /\ conn' = [conn EXCEPT ![c].stop = FALSE, ![c].nreqs = reqs_per_event,
                            ![c].ncmds = 0]
    /\ UNCHANGED <<sock, udp, oplog, started, time0, current_time, oldest_live, items,
                   hash, lru, todelete, deltotal, hist, watch, rt, arith_cmds>>

\* drive_machine, conn_read, of a UDP connection with nreqs left: when
\* try_read_udp returns 1 the loop continues, when it returns 0
\* update_event(EV_READ | EV_PERSIST) is called and the loop stops
DriveReadUdp(c) ==
    /\ ~conn[c].stop
    /\ Idle(c)
    /\ conn[c].udp
    /\ LineEnd(conn[c].rbuf) = 0
    /\ conn[c].nreqs # 0
    /\ sock[c].bytes # <<>>
    /\ LET d == Head(sock[c].bytes)
           r == try_read_udp(conn[c], d)
       IN  /\ conn' = [conn EXCEPT ![c] =
                          IF r.rc # 0 THEN [r.cn EXCEPT !.nreqs = @ - 1]
                          ELSE [r.cn EXCEPT !.ev_flags = "EV_READ", !.stop = TRUE]]
           /\ hist' = [hist EXCEPT ![c] = [NoHist EXCEPT !.op = "udp", !.line = d.payload,
                                                          !.data = d.hdr]]
    /\ sock' = [sock EXCEPT ![c].bytes = Tail(@)]
    /\ UNCHANGED <<udp, oplog, started, time0, current_time, oldest_live, items, hash,
                   lru, todelete, deltotal, watch, rt, arith_cmds>>

\* drive_machine, conn_read: no line in the buffer, and nreqs is used up or
\* recvfrom has nothing: update_event(EV_READ | EV_PERSIST) and stop
DriveWait(c) ==
    /\ ~conn[c].stop
    /\ Idle(c)
    /\ LineEnd(conn[c].rbuf) = 0
    /\ conn[c].nreqs = 0 \/ sock[c].bytes = <<>>
    /\ conn' = [conn EXCEPT ![c].ev_flags = "EV_READ", ![c].stop = TRUE]
    /\ UNCHANGED <<sock, udp, oplog, started, time0, current_time, oldest_live, items,
                   hash, lru, todelete, deltotal, hist, watch, rt, arith_cmds>>

\* drive_machine, conn_write and conn_mwrite: sendmsg would block, transmit
\* calls update_event(EV_WRITE | EV_PERSIST) and returns TRANSMIT_SOFT_ERROR
DriveWouldBlock(c) ==
    /\ ~conn[c].stop
    /\ conn[c].state \in {"conn_write", "conn_mwrite"}
    /\ conn[c].sent < Len(Reply(c))
    /\ conn' = [conn EXCEPT ![c].ev_flags = "EV_WRITE", ![c].stop = TRUE]
    /\ UNCHANGED <<sock, udp, oplog, started, time0, current_time, oldest_live, items,
                   hash, lru, todelete, deltotal, hist, watch, rt, arith_cmds>>

InitReply ==
    /\ started = StartOfTime
    /\ time0 = 2
    /\ current_time = U32(2)
    /\ oldest_live = U32(0)
    /\ items = [id \in ItemIds |-> NoItem]
    /\ hash = <<>>
    /\ lru = <<>>
    /\ todelete = <<>>
    /\ deltotal = DELTOTAL
    /\ conn = [c \in Conns |-> [NewConn EXCEPT !.udp = (c = 1)]]
    /\ hist = [c \in Conns |-> NoHist]
    /\ watch = [c \in Conns |-> NoWatch]
    /\ rt = NoRt
    /\ arith_cmds = 0
    /\ oplog = <<>>
    /\ \E ds \in UdpReplySeqs(MaxDatagrams) :
           sock = [c \in Conns |-> IF c = 1 THEN [bytes |-> ds, eof |-> FALSE]
                                   ELSE NoSock]
    /\ udp = NoUdp

NextReply ==
    \/ EventArrives(1)
    \/ DriveCommand(1)
    \/ DriveReadUdp(1)
    \/ DriveWait(1)
    \/ DriveTransmitSome(1)
    \/ DriveTransmitComplete(1)
    \/ DriveWouldBlock(1)

SpecReply == InitReply /\ [][NextReply]_vars

\* C33: whenever drive_machine has returned with the connection in
\* conn_write or conn_mwrite, a transmit was attempted, would block, and the
\* connection waits until it can write; it never waits for input alone with
\* a reply that is not sent, also not with a reply that try_read_udp
\* composed.
C33_ReplyNotSuspended ==
    \A c \in Conns :
        conn[c].stop /\ conn[c].state \in {"conn_write", "conn_mwrite"} =>
            conn[c].ev_flags = "EV_WRITE"

----------------------------------------------------------------------------
(* A read buffer that is full.                                             *)

\* the size of a connection buffer
CONN_BUFFER_DATA_SZ == 16

\* int try_read_network(conn *c) when n bytes have arrived on the socket:
\* read is called with the room that is left until it returns less than
\* that; with no room left it is called for 0 bytes and returns 0, which the
\* code takes for the end of the stream
try_read_network(cn, bytes, n) ==
    LET avail == CONN_BUFFER_DATA_SZ - Len(cn.rbuf)
    IN  IF n < avail
        THEN [cn |-> [cn EXCEPT !.rbuf = @ \o SubSeq(bytes, 1, n)], res |-> n]
        ELSE [cn |-> conn_set_state([cn EXCEPT !.rbuf = @ \o SubSeq(bytes, 1, avail)],
                                    "conn_closing"),
              res |-> avail]

\* drive_machine, conn_read: try_read_network reads what has arrived into
\* the read buffer
ReadNetworkBuffer(c) ==
    /\ Idle(c)
    /\ ~conn[c].udp
    /\ LineEnd(conn[c].rbuf) = 0
    /\ \E n \in 1..Len(sock[c].bytes) :
        LET r == try_read_network(conn[c], sock[c].bytes, n)
        IN  /\ conn' = [conn EXCEPT ![c] = r.cn]
            /\ sock' = [sock EXCEPT ![c].bytes = SubSeq(@, r.res + 1, Len(@))]
    /\ hist' = [hist EXCEPT ![c] = [NoHist EXCEPT !.op = "read"]]
    /\ UNCHANGED <<udp, oplog, started, time0, current_time, oldest_live, items,
                   hash, lru, todelete, deltotal, watch, rt, arith_cmds>>

InitFull ==
    /\ started = StartOfTime
    /\ time0 = 2
    /\ current_time = U32(2)
    /\ oldest_live = U32(0)
    /\ items = [id \in ItemIds |-> NoItem]
    /\ hash = <<>>
    /\ lru = <<>>
    /\ todelete = <<>>
    /\ deltotal = DELTOTAL
    /\ conn = [c \in Conns |-> NewConn]
    /\ hist = [c \in Conns |-> NoHist]
    /\ watch = [c \in Conns |-> NoWatch]
    /\ rt = NoRt
    /\ arith_cmds = 0
    /\ oplog = <<>>
    /\ \E s \in PipelineStreams, eof \in BOOLEAN :
           sock = [c \in Conns |-> IF c = 1 THEN [bytes |-> s, eof |-> eof] ELSE NoSock]
    /\ udp = NoUdp

NextFull ==
    \/ \E c \in Conns : ReadNetworkBuffer(c)
    \/ \E c \in Conns : ReadCommand(c)
    \/ \E c \in Conns : TransmitSome(c)
    \/ \E c \in Conns : TransmitComplete(c)
    \/ \E c \in Conns : ReadEof(c)
    \/ \E c \in Conns : Closing(c)

SpecFull == InitFull /\ [][NextFull]_vars

\* C34: in conn_read a stream connection goes to conn_closing only when the
\* peer has closed the stream (or the command is quit); it does not go there,
\* and drops no complete command that is in its read buffer, because the
\* read buffer has become full.
C34_FullBufferStaysOpen ==
    [][\A c \in Conns :
          /\ ~conn[c].udp
          /\ conn[c].state = "conn_read"
          /\ conn'[c].state = "conn_closing"
          => \/ EndOfStream(c)
             \/ hist'[c].op = "quit"
      ]_vars

----------------------------------------------------------------------------
(* A set inside a delete window.                                           *)

\* C35: a value that set stores during a delete window outlives the window:
\* the run of the sweeper that takes the old item of the key from the queue
\* leaves every item that is not in the queue as it is, linked and seen by
\* get as before; and the old item, once its window has passed, leaves the
\* queue in the end.
C35_SetOutlivesWindow ==
    /\ [][QueueShrinks =>
             \A id \in ItemIds :
                 items[id].linked /\ id \notin Range(todelete) =>
                     /\ items'[id] = items[id]
                     /\ Count(hash', id) = 1
                     /\ KeyView(StoreNext, items[id].key).it = id
                     /\ Sight(StoreNext, items[id].key) = Sight(Store, items[id].key)
         ]_vars
    /\ \A old \in ItemIds :
          (old \in Range(todelete) /\ ~items[old].linked
               /\ item_delete_lock_over(items[old]))
              ~> (old \notin Range(todelete))

\* delete a 1 was answered DELETED and a set of a STORED after it, in the
\* same second and so inside the window; the window has passed and the queue
\* is empty again, so the sweeper has taken the old item, and the value of
\* the set is what a get of a finds
C35_Witness ==
    /\ todelete = <<>>
    /\ \E i, j \in DOMAIN oplog :
          /\ i < j
          /\ oplog[i].line = Join(<<W_delete, K_a, <<"1">> >>)
          /\ oplog[i].reply = R_DELETED \o CRLF
          /\ oplog[j].op = NREAD_SET
          /\ oplog[j].key = K_a
          /\ oplog[j].reply = R_STORED \o CRLF
          /\ KeyView(Store, K_a).live
          /\ KeyView(Store, K_a).data = oplog[j].data
    /\ items[KeyView(Store, K_a).it].time = U32(2)
    /\ LeU(U32(3), current_time)

----------------------------------------------------------------------------
(* The cache mutex.                                                        *)

\* the entries the delete queue has room for before it must grow
MaxQueue == 1

\* the commands of one run
MaxLockOps == 4

\* nobody holds the mutex
Unlocked == 0

\* the mutex, and where each connection's thread is in the functions that
\* take it
InitLock ==
    /\ started = StartOfTime
    /\ time0 = 2
    /\ current_time = U32(2)
    /\ oldest_live = U32(0)
    /\ items = [id \in ItemIds |-> NoItem]
    /\ hash = <<>>
    /\ lru = <<>>
    /\ todelete = <<>>
    /\ deltotal = MaxQueue
    /\ conn = [c \in Conns |-> NewConn]
    /\ hist = [c \in Conns |-> NoHist]
    /\ watch = [c \in Conns |-> NoWatch]
    /\ rt = NoRt
    /\ arith_cmds = 0
    /\ oplog = <<>>
    /\ sock = [c \in Conns |-> NoSock]
    /\ udp = [phase |-> "lock", owner |-> Unlocked, pc |-> [c \in Conns |-> "idle"]]

\* the time of the delete line that the connection is working on
DelExptime(c) ==
    LET tk == Parsed[conn[c].del.line]
    IN  IF Len(tk.tokens) = 4 THEN strtol(CStr(tk.buf, tk.tokens[3].value)).val
        ELSE ZeroL(LongLimbs)

\* process_delete_command: item_get has found nothing, NOT_FOUND
DeleteMiss(c) ==
    /\ conn[c].del.on
    /\ conn[c].del.it = 0
    /\ conn' = [conn EXCEPT ![c] = out_string([@ EXCEPT !.del = NoDel], R_NOT_FOUND)]
    /\ UNCHANGED <<sock, udp, oplog, started, time0, current_time, oldest_live, items,
                   hash, lru, todelete, deltotal, hist, watch, rt, arith_cmds>>

\* process_delete_command, exptime == 0: item_unlink takes the mutex,
\* unlinks and gives the mutex back; item_deref is called next
DeleteUnlink(c) ==
    /\ conn[c].del.on
    /\ conn[c].del.it # 0
    /\ DelExptime(c) = ZeroL(LongLimbs)
    /\ udp.pc[c] = "idle"
    /\ udp.owner = Unlocked
    /\ StoreAfter(do_item_unlink(Store, conn[c].del.it))
    /\ udp' = [udp EXCEPT !.pc[c] = "item_deref"]
    /\ UNCHANGED <<sock, oplog, started, time0, current_time, oldest_live, conn,
                   todelete, deltotal, hist, watch, rt, arith_cmds>>

\* defer_delete: the mutex is taken for do_defer_delete
DeferLock(c) ==
    /\ conn[c].del.on
    /\ conn[c].del.it # 0
    /\ DelExptime(c) # ZeroL(LongLimbs)
    /\ udp.pc[c] = "idle"
    /\ udp.owner = Unlocked
    /\ udp' = [udp EXCEPT !.owner = c, !.pc[c] = "do_defer_delete"]
    /\ UdpUnchanged

\* do_defer_delete with the mutex held: the item goes into the queue, or,
\* when the queue is full and pool_realloc gives nothing, item_deref is
\* called
DeferBody(c) ==
    /\ udp.pc[c] = "do_defer_delete"
    /\ udp.owner = c
    /\ \E grown \in IF Len(todelete) >= deltotal THEN BOOLEAN ELSE {TRUE} :
          IF Len(todelete) >= deltotal /\ ~grown
          THEN /\ udp' = [udp EXCEPT !.pc[c] = "item_deref"]
               /\ UNCHANGED <<items, hash, lru, todelete, deltotal>>
          ELSE LET d == do_defer_delete(Store, Queue, conn[c].del.it, DelExptime(c), grown)
               IN  /\ StoreAfter(d.st)
                   /\ todelete' = d.q.todelete
                   /\ deltotal' = d.q.deltotal
                   /\ udp' = [udp EXCEPT !.pc[c] = "unlock"]
    /\ UNCHANGED <<sock, oplog, started, time0, current_time, oldest_live, conn,
                   hist, watch, rt, arith_cmds>>

\* item_deref: the mutex is taken when nobody holds it, the reference is
\* given back and the mutex released; the caller goes on with its reply
ItemDeref(c) ==
    /\ udp.pc[c] = "item_deref"
    /\ udp.owner = Unlocked
    /\ StoreAfter(do_item_deref(Store, conn[c].del.it))
    /\ conn' = [conn EXCEPT ![c] = out_string([@ EXCEPT !.del = NoDel], R_DELETED)]
    /\ udp' = [udp EXCEPT !.pc[c] = "idle"]
    /\ UNCHANGED <<sock, oplog, started, time0, current_time, oldest_live,
                   todelete, deltotal, hist, watch, rt, arith_cmds>>

\* defer_delete gives the mutex back and process_delete_command replies
DeferUnlock(c) ==
    /\ udp.pc[c] = "unlock"
    /\ udp.owner = c
    /\ conn' = [conn EXCEPT ![c] = out_string([@ EXCEPT !.del = NoDel], R_DELETED)]
    /\ udp' = [udp EXCEPT !.owner = Unlocked, !.pc[c] = "idle"]
    /\ UNCHANGED <<sock, oplog, started, time0, current_time, oldest_live, items,
                   hash, lru, todelete, deltotal, hist, watch, rt, arith_cmds>>

\* the functions that take the mutex for the whole of their do_ function
\* run when nobody holds it
NextLock ==
    \/ udp.owner = Unlocked /\ Begun < MaxLockOps /\ CmdUpdate(1, LockLines)
    \/ \E c \in Conns : udp.owner = Unlocked /\ Nread(c, ThreadValues, {CRLF})
    \/ \E c \in Conns : udp.owner = Unlocked /\ Begun < MaxLockOps /\ DeleteGet(c, LockLines)
    \/ \E c \in Conns : DeleteMiss(c)
    \/ \E c \in Conns : DeleteUnlink(c)
    \/ \E c \in Conns : DeferLock(c)
    \/ \E c \in Conns : DeferBody(c)
    \/ \E c \in Conns : ItemDeref(c)
    \/ \E c \in Conns : DeferUnlock(c)
    \/ \E c \in Conns : Respond(c)

SpecLock == InitLock /\ [][NextLock]_vars

\* C36: no thread that holds the cache mutex calls a function that takes
\* the mutex: in particular do_defer_delete, when the queue cannot grow,
\* gives the reference back without waiting for the mutex its caller holds.
C36_NoRelock ==
    \A c \in Conns :
        udp.phase = "lock" /\ udp.owner = c => udp.pc[c] # "item_deref"

----------------------------------------------------------------------------
(* Two deletes of one key.                                                 *)

\* C37: an item is in the delete queue at most once, also when two
\* connections on different threads delete its key with a window at the
\* same time, and the length of the queue is the number of delete-locked
\* items.
C37_QueuedOnce ==
    /\ \A id \in ItemIds : Count(todelete, id) <= 1
    /\ Len(todelete) = Cardinality({id \in ItemIds : items[id].used /\ items[id].deleted})

----------------------------------------------------------------------------
(* flush_all with a time.                                                  *)

NextFlushTime ==
    \/ CmdGet(1, FlushTimeLines)
    \/ CmdUpdate(1, FlushTimeLines)
    \/ \E c \in Conns : Nread(c, ThreadValues, {CRLF})
    \/ CmdFlushAll(1, FlushTimeLines)
    \/ \E c \in Conns : Transmit(c)
    \/ Tick
    \/ clock_handler

SpecFlushTime == Init /\ [][NextFlushTime]_vars

\* the time that the flush_all line asks for, as realtime gives it when the
\* command has set the clock
FlushTime(line) ==
    LET tk == Parsed[line]
    IN  realtime_at(strtol(CStr(tk.buf, tk.tokens[2].value)).val, current_time')

\* C38: flush_all T never sets the flush horizon beyond the requested time:
\* after it oldest_live is at most the later of current_time and
\* realtime(T), for every T, 0 among them.
C38_FlushHorizon ==
    [][\A c \in Conns :
          Completes(c, "flush_all") /\ Len(Parsed[hist'[c].line].tokens) = 3
                /\ ReplyNext(c) = R_OK \o CRLF
            => LET r == FlushTime(hist'[c].line)
               IN  LeU(oldest_live', IF LeU(r, current_time') THEN current_time' ELSE r)
      ]_vars

----------------------------------------------------------------------------
(* The read cursor while bytes are swallowed.                              *)

\* C39: the read cursor stays inside the read buffer: in every reachable
\* state the number of bytes left to swallow is not negative, whatever
\* length the line of a storage command carries, and no step of conn_swallow
\* has moved the cursor to a place before the buffer.
C39_ReadCursor ==
    \A c \in Conns :
        /\ conn[c].sbytes >= 0
        /\ conn[c].state # "fault"

----------------------------------------------------------------------------
(* The assertions at the start of a command.                               *)

\* try_read_command has a line of a get for process_command
GetStarts(c) ==
    /\ Idle(c)
    /\ LineEnd(conn[c].rbuf) # 0
    /\ ParsedLine(CommandLine(conn[c].rbuf, LineEnd(conn[c].rbuf))).branch = "get"

\* C40: the assertions at the start of command processing hold in every
\* reachable state: a connection that waits for a command has an empty
\* scatter list, a get that starts finds no bytes in the write buffer, and
\* no assertion has ended the process, also for the command that follows a
\* failed UDP transmit.
C40_CommandAssertions ==
    \A c \in Conns :
        /\ Idle(c) => conn[c].iov = <<>>
        /\ GetStarts(c) => conn[c].wbuf = <<>>
        /\ conn[c].state # "aborted"

====
